---- MODULE Spec2Model ----
(***************************************************************************)
(* Model of the Rajniti election-results crawlers:                         *)
(*   - VidhanSabhaScraper (app/scrapers/vidhan_sabha.py), the state        *)
(*     assembly crawler with incremental-append persistence,               *)
(*   - LokSabhaScraper (app/scrapers/lok_sabha.py), the national crawler   *)
(*     with batch persistence,                                             *)
(*   - normalize_candidate_status / normalize_candidates_data              *)
(*     (scripts/migrations/migrate_json_to_db.py).                         *)
(* Text is modelled as sequences of one-character strings so that strip,   *)
(* upper, split, slicing and int() are computed as the code computes them. *)
(* The results portal is a function from URLs to pages that is revealed    *)
(* page by page as the crawler fetches: a page fetched again is the same   *)
(* page.                                                                   *)
(***************************************************************************)
EXTENDS Integers, Sequences, FiniteSets, TLC

VARIABLES
    crawler,    \* "VS" (assembly), "LS" (national); "CARD", "JSON", "MIGRATE", "AGENT", "SYNC", "APPEND", "RACE" otherwise
    pc,         \* position of the run inside scrape()
    portal,     \* the pages of the portal revealed so far: URL -> page
    self,       \* the scraper object's fields
    loc,        \* local variables of scrape() that live across steps
    files,      \* durable storage: artifact name -> Absent or a JSON array
    log,        \* the log entries written so far
    events,     \* history: fetches, delays, artifact writes and search calls, in order
    exc,        \* the exception that ended the run, or NoExc
    store       \* the database the migration and the services work on

vars == <<crawler, pc, portal, self, loc, files, log, events, exc, store>>

----------------------------------------------------------------------------
(* Bounds of the model *)

MaxParties == 2     \* rows of the index page's party table
MaxRows == 2        \* rows of a party results page
MaxCards == 1       \* candidate cards of a constituency page
MaxStates == 2      \* options of the national index page's state dropdown
MaxMigrate == 2     \* candidate records in a migrated candidates.json

----------------------------------------------------------------------------
(* Values *)

NoExc == "NoExc"
Unavailable == [avail |-> FALSE]   \* get_with_retry gave up

----------------------------------------------------------------------------
(* Text: sequences of one-character strings *)

Whitespace == {" ", "\t", "\n"}
Digits == {"0", "1", "2", "3", "4", "5", "6", "7", "8", "9"}

DigitVal(c) ==
    CASE c = "0" -> 0 [] c = "1" -> 1 [] c = "2" -> 2 [] c = "3" -> 3
      [] c = "4" -> 4 [] c = "5" -> 5 [] c = "6" -> 6 [] c = "7" -> 7
      [] c = "8" -> 8 [] c = "9" -> 9

LowerAlpha ==
    <<"a", "b", "c", "d", "e", "f", "g", "h", "i", "j", "k", "l", "m",
      "n", "o", "p", "q", "r", "s", "t", "u", "v", "w", "x", "y", "z">>
UpperAlpha ==
    <<"A", "B", "C", "D", "E", "F", "G", "H", "I", "J", "K", "L", "M",
      "N", "O", "P", "Q", "R", "S", "T", "U", "V", "W", "X", "Y", "Z">>

\* str.upper() of one character
UpperChar(c) ==
    IF \E i \in 1..26 : LowerAlpha[i] = c
    THEN UpperAlpha[CHOOSE i \in 1..26 : LowerAlpha[i] = c]
    ELSE c

\* str.lower() of one character
LowerChar(c) ==
    IF \E i \in 1..26 : UpperAlpha[i] = c
    THEN LowerAlpha[CHOOSE i \in 1..26 : UpperAlpha[i] = c]
    ELSE c

Upper(s) == [i \in 1..Len(s) |-> UpperChar(s[i])]
Lower(s) == [i \in 1..Len(s) |-> LowerChar(s[i])]

RECURSIVE LStrip(_)
LStrip(s) == IF s # <<>> /\ Head(s) \in Whitespace THEN LStrip(Tail(s)) ELSE s

RECURSIVE RStrip(_)
RStrip(s) ==
    IF s # <<>> /\ s[Len(s)] \in Whitespace THEN RStrip(SubSeq(s, 1, Len(s) - 1)) ELSE s

\* str.strip()
Strip(s) == RStrip(LStrip(s))

\* s.replace(c, "") for a one-character c
RECURSIVE Remove(_, _)
Remove(s, c) ==
    IF s = <<>> THEN <<>>
    ELSE IF Head(s) = c THEN Remove(Tail(s), c)
    ELSE <<Head(s)>> \o Remove(Tail(s), c)

\* does pat occur in s at position i
MatchAt(s, pat, i) ==
    /\ i + Len(pat) - 1 <= Len(s)
    /\ \A k \in 1..Len(pat) : s[i + k - 1] = pat[k]

\* the position of the first occurrence of pat in s, 0 when there is none (str.find + 1)
Find(s, pat) ==
    IF \E i \in 1..Len(s) : MatchAt(s, pat, i)
    THEN CHOOSE i \in 1..Len(s) :
            MatchAt(s, pat, i) /\ \A j \in 1..(i - 1) : ~MatchAt(s, pat, j)
    ELSE 0

\* s.split(pat)[0]
SplitFirst(s, pat) ==
    IF Find(s, pat) = 0 THEN s ELSE SubSeq(s, 1, Find(s, pat) - 1)

\* s.split(pat)[-1]
RECURSIVE SplitLast(_, _)
SplitLast(s, pat) ==
    IF Find(s, pat) = 0 THEN s
    ELSE SplitLast(SubSeq(s, Find(s, pat) + Len(pat), Len(s)), pat)

\* str.isdigit()
IsDigit(s) == s # <<>> /\ \A i \in 1..Len(s) : s[i] \in Digits

RECURSIVE DigitsValue(_)
DigitsValue(s) ==
    IF s = <<>> THEN 0 ELSE 10 * DigitsValue(SubSeq(s, 1, Len(s) - 1)) + DigitVal(s[Len(s)])

\* can int(s) parse s: optional surrounding whitespace, optional sign, digits
IntParses(s) ==
    LET t == Strip(s)
        u == IF t # <<>> /\ Head(t) \in {"+", "-"} THEN Tail(t) ELSE t
    IN  IsDigit(u)

\* int(s) for a text int() parses
IntValue(s) ==
    LET t == Strip(s)
        neg == t # <<>> /\ Head(t) = "-"
        u == IF t # <<>> /\ Head(t) \in {"+", "-"} THEN Tail(t) ELSE t
    IN  IF neg THEN 0 - DigitsValue(u) ELSE DigitsValue(u)

----------------------------------------------------------------------------
(* Text literals *)

NoneText == <<"None">>      \* Python's None where a text is expected
NoneList == <<[none |-> TRUE]>>   \* Python's None where a list of records is expected
NoYear == 0                 \* self.year = None ("not self.year" is its only test)

T_WON == <<"W", "O", "N">>
T_LOST == <<"L", "O", "S", "T">>
T_UNKNOWN == <<"U", "N", "K", "N", "O", "W", "N">>
T_XX == <<"X", "X">>
T_SEP == <<" ", "-", " ">>      \* the " - " of a party display string

----------------------------------------------------------------------------
(* VidhanSabhaScraper._detect_state_info *)

\* state_patterns, in the dict's insertion order
state_patterns ==
    <<
      [pats |-> {<<"d", "e", "l", "h", "i">>, <<"d", "l">>},
       code |-> <<"D", "L">>, name |-> "Delhi"],
      [pats |-> {<<"m", "a", "h", "a", "r", "a", "s", "h", "t", "r", "a">>, <<"m", "h">>},
       code |-> <<"M", "H">>, name |-> "Maharashtra"],
      [pats |-> {<<"k", "a", "r", "n", "a", "t", "a", "k", "a">>, <<"k", "a">>},
       code |-> <<"K", "A">>, name |-> "Karnataka"],
      [pats |-> {<<"g", "u", "j", "a", "r", "a", "t">>, <<"g", "j">>},
       code |-> <<"G", "J">>, name |-> "Gujarat"],
      [pats |-> {<<"r", "a", "j", "a", "s", "t", "h", "a", "n">>, <<"r", "j">>},
       code |-> <<"R", "J">>, name |-> "Rajasthan"],
      [pats |-> {<<"p", "u", "n", "j", "a", "b">>, <<"p", "b">>},
       code |-> <<"P", "B">>, name |-> "Punjab"],
      [pats |-> {<<"h", "a", "r", "y", "a", "n", "a">>, <<"h", "r">>},
       code |-> <<"H", "R">>, name |-> "Haryana"],
      [pats |-> {<<"u", "t", "t", "a", "r", "p", "r", "a", "d", "e", "s", "h">>, <<"u", "p">>},
       code |-> <<"U", "P">>, name |-> "Uttar Pradesh"],
      [pats |-> {<<"b", "i", "h", "a", "r">>, <<"b", "r">>},
       code |-> <<"B", "R">>, name |-> "Bihar"],
      [pats |-> {<<"w", "e", "s", "t", "b", "e", "n", "g", "a", "l">>, <<"w", "b">>},
       code |-> <<"W", "B">>, name |-> "West Bengal"],
      [pats |-> {<<"t", "a", "m", "i", "l", "n", "a", "d", "u">>, <<"t", "n">>},
       code |-> <<"T", "N">>, name |-> "Tamil Nadu"],
      [pats |-> {<<"t", "e", "l", "a", "n", "g", "a", "n", "a">>, <<"t", "g">>},
       code |-> <<"T", "G">>, name |-> "Telangana"],
      [pats |-> {<<"a", "n", "d", "h", "r", "a", "p", "r", "a", "d", "e", "s", "h">>, <<"a", "p">>},
       code |-> <<"A", "P">>, name |-> "Andhra Pradesh"],
      [pats |-> {<<"m", "a", "d", "h", "y", "a", "p", "r", "a", "d", "e", "s", "h">>, <<"m", "p">>},
       code |-> <<"M", "P">>, name |-> "Madhya Pradesh"],
      [pats |-> {<<"o", "d", "i", "s", "h", "a">>, <<"o", "r">>},
       code |-> <<"O", "R">>, name |-> "Odisha"],
      [pats |-> {<<"k", "e", "r", "a", "l", "a">>, <<"k", "l">>},
       code |-> <<"K", "L">>, name |-> "Kerala"],
      [pats |-> {<<"j", "h", "a", "r", "k", "h", "a", "n", "d">>, <<"j", "h">>},
       code |-> <<"J", "H">>, name |-> "Jharkhand"],
      [pats |-> {<<"a", "s", "s", "a", "m">>, <<"a", "s">>},
       code |-> <<"A", "S">>, name |-> "Assam"],
      [pats |-> {<<"c", "h", "h", "a", "t", "t", "i", "s", "g", "a", "r", "h">>, <<"c", "g">>},
       code |-> <<"C", "G">>, name |-> "Chhattisgarh"]
    >>

\* re.search(pattern, text, re.IGNORECASE) for a pattern "a|b" of two literals
SearchIgnoreCase(pats, text) ==
    \E p \in pats : Find(Lower(text), p) # 0

\* the index in state_patterns of the first pattern found in the text, 0 if none
FirstStatePattern(text) ==
    IF \E i \in 1..Len(state_patterns) : SearchIgnoreCase(state_patterns[i].pats, text)
    THEN CHOOSE i \in 1..Len(state_patterns) :
            /\ SearchIgnoreCase(state_patterns[i].pats, text)
            /\ \A j \in 1..(i - 1) : ~SearchIgnoreCase(state_patterns[j].pats, text)
    ELSE 0

\* does r"20\d{2}" match s at position i
YearAt(s, i) ==
    /\ i + 3 <= Len(s)
    /\ s[i] = "2" /\ s[i + 1] = "0"
    /\ s[i + 2] \in Digits /\ s[i + 3] \in Digits

\* int(re.search(r"20\d{2}", s).group(0)), NoYear when there is no match
\* a faulty search that takes the last match of the pattern
\* (C24_YearFromBaseUrl must detect it)
YearSearch_last_match(s) ==
    IF \E i \in 1..Len(s) : YearAt(s, i)
    THEN LET i == CHOOSE k \in 1..Len(s) :
                    YearAt(s, k) /\ \A j \in (k + 1)..Len(s) : ~YearAt(s, j)
         IN  DigitsValue(SubSeq(s, i, i + 3))
    ELSE NoYear

YearSearch(s) ==
    IF \E i \in 1..Len(s) : YearAt(s, i)
    THEN LET i == CHOOSE k \in 1..Len(s) :
                    YearAt(s, k) /\ \A j \in 1..(k - 1) : ~YearAt(s, j)
         IN  DigitsValue(SubSeq(s, i, i + 3))
    ELSE NoYear

----------------------------------------------------------------------------
(* Log entries, history events, files *)

\* one logger call: its level, which message it is, and the unit it names
LogEntry(level, msg, unit) == [level |-> level, msg |-> msg, unit |-> unit]

Url(kind, code) == [kind |-> kind, code |-> code]
IndexUrl == Url("index", <<>>)                    \* f"{base_url}/index.htm"

FetchEvent(url, ok) == [ev |-> "fetch", url |-> url, file |-> "", ok |-> ok]
WriteEvent(file) == [ev |-> "write", url |-> IndexUrl, file |-> file, ok |-> TRUE]
SleepEvent == [ev |-> "sleep", url |-> IndexUrl, file |-> "", ok |-> TRUE]

FileNames == {"parties", "constituencies", "candidates", "summary", "states"}
AbsentFile == [exists |-> FALSE, data |-> <<>>]
NoFiles == [f \in FileNames |-> AbsentFile]

\* a faulty _append_json that opens the artifact for writing and loses the
\* records it held (C2_StageOrderPerCrawler must detect it)
_append_json_truncating(file, record) == [exists |-> TRUE, data |-> <<record>>]

\* VidhanSabhaScraper._append_json for one record: create the array, or read it,
\* append and write it back
_append_json(file, record) ==
    IF ~file.exists
    THEN [exists |-> TRUE, data |-> <<record>>]
    ELSE [exists |-> TRUE, data |-> Append(file.data, record)]

\* a faulty append loop that keeps the records in memory and leaves the artifact
\* as it is (C17_CandidatesFlushedAsDiscovered must detect it)
AppendAll_deferred(file, records) == file

\* _append_json for each record of a list, in order
RECURSIVE AppendAll(_, _)
AppendAll(file, records) ==
    IF records = <<>> THEN file
    ELSE AppendAll(_append_json(file, Head(records)), Tail(records))

\* base.save_json: serialise the collection into the artifact, replacing it
save_json(data) == [exists |-> TRUE, data |-> data]

\* VidhanSabhaScraper.count_json_records
count_json_records(file) ==
    IF file.exists /\ file.data # NoneList THEN Len(file.data) ELSE 0

\* base.get_with_retry: the page, or a falsy result once the retries are used up
get_with_retry(page) == page

----------------------------------------------------------------------------
(* Identifier resolution (both crawlers) *)

\* href.split("-")[-1].split(".")[0]
LinkCode(href) == SplitFirst(SplitLast(href, <<"-">>), <<".">>)

\* s[:-3]
AllButLast3(s) == IF Len(s) <= 3 THEN <<>> ELSE SubSeq(s, 1, Len(s) - 3)
\* s[-3:]
Last3(s) == IF Len(s) <= 3 THEN s ELSE SubSeq(s, Len(s) - 2, Len(s))
\* s[:3]
First3(s) == IF Len(s) <= 3 THEN s ELSE SubSeq(s, 1, 3)
\* s[3:]
From4(s) == IF Len(s) <= 3 THEN <<>> ELSE SubSeq(s, 4, Len(s))

\* _generate_party_page_link
_generate_party_page_link(party_id) == Url("party", party_id)

\* a faulty link generator that puts the constituency code first
\* (C25_CandidateLinkFromCodes must detect it)
_generate_constituency_page_link_swapped(state_id, constituency_id) ==
    Url("cand", constituency_id \o state_id)

\* _generate_constituency_page_link
_generate_constituency_page_link(state_id, constituency_id) ==
    Url("cand", state_id \o constituency_id)

----------------------------------------------------------------------------
(* VidhanSabhaScraper._discover_candidate_details: one candidate card *)

\* BeautifulSoup get_text(strip=True) of a div holding a text and an optional span
GetTextStrip(div) ==
    Strip(div.text) \o (IF div.span = NoneText THEN <<>> ELSE Strip(div.span))

\* margin_text with "(", ")", "+", "-" and " " removed
RawMargin(margin_text) ==
    Remove(Remove(Remove(Remove(Remove(margin_text, "("), ")"), "+"), "-"), " ")

\* the try block of lines 532-548: total_votes and margin of a votes div, and
\* whether the except branch ran
ParseVotes(votes_div) ==
    LET vote_text == GetTextStrip(votes_div)
        first == SplitFirst(vote_text, <<"(">>)
        raw_margin ==
            IF votes_div.span = NoneText THEN <<>> ELSE RawMargin(Strip(votes_div.span))
    IN  IF ~IntParses(first)
        THEN [total_votes |-> 0, margin |-> 0, failed |-> TRUE]
        ELSE [total_votes |-> IntValue(first),
              margin |-> IF IsDigit(raw_margin) THEN DigitsValue(raw_margin) ELSE 0,
              failed |-> FALSE]

\* candidate_status of a card: "UNKNOWN" unless the status div has a first child div
CardStatus(card) ==
    IF card.status_divs # NoneList /\ Len(card.status_divs) > 0
    THEN Upper(Strip(card.status_divs[1].text))
    ELSE T_UNKNOWN

\* total_votes and margin of a card: zero unless the status div has a second child div
CardVotes(card) ==
    IF card.status_divs # NoneList /\ Len(card.status_divs) > 1
    THEN ParseVotes(card.status_divs[2])
    ELSE [total_votes |-> 0, margin |-> 0, failed |-> FALSE]

\* _get_party_id_by_name
RECURSIVE LookupParty(_, _)
LookupParty(parties, normalized) ==
    IF parties = <<>> THEN T_UNKNOWN
    ELSE IF \/ Lower(Strip(Head(parties).name)) = normalized
            \/ Lower(Strip(Head(parties).short_name)) = normalized
         THEN Head(parties).id
         ELSE LookupParty(Tail(parties), normalized)

_get_party_id_by_name(parties, party_name) ==
    IF party_name = <<>> THEN T_UNKNOWN ELSE LookupParty(parties, Lower(Strip(party_name)))

\* is the card skipped by one of the "continue" statements (no record, no log entry)
CardSkipped(card) == ~card.info \/ ~card.nme_prty

\* the record appended for a card that is not skipped
CandidateRecord(card, parties, state_id, constituency_id, uuid) ==
    [id |-> uuid,
     name |-> Strip(card.name),
     party_id |-> _get_party_id_by_name(parties, Strip(card.party)),
     constituency_id |-> constituency_id,
     state_id |-> state_id,
     status |-> CardStatus(card),
     type |-> "MP",
     image_url |-> card.image,
     total_votes |-> CardVotes(card).total_votes,
     margin |-> CardVotes(card).margin]

\* the loop over candidate_boxes: the records, in order; uuid is the next fresh id
RECURSIVE ParseCards(_, _, _, _, _)
ParseCards(cards, parties, state_id, constituency_id, uuid) ==
    IF cards = <<>> THEN <<>>
    ELSE IF CardSkipped(Head(cards))
         THEN ParseCards(Tail(cards), parties, state_id, constituency_id, uuid)
         ELSE <<CandidateRecord(Head(cards), parties, state_id, constituency_id, uuid)>>
              \o ParseCards(Tail(cards), parties, state_id, constituency_id, uuid + 1)

\* the warnings logged by the loop over candidate_boxes (lines 546 and 126)
RECURSIVE CardWarnings(_, _, _)
CardWarnings(cards, parties, constituency_name) ==
    IF cards = <<>> THEN <<>>
    ELSE LET card == Head(cards)
             votes == IF card.info /\ CardVotes(card).failed
                      THEN <<LogEntry("warning", "votes_parse", <<>>)>>
                      ELSE <<>>
             party == IF /\ ~CardSkipped(card)
                         /\ Strip(card.party) # <<>>
                         /\ _get_party_id_by_name(parties, Strip(card.party)) = T_UNKNOWN
                      THEN <<LogEntry("warning", "party_not_found", Strip(card.party))>>
                      ELSE <<>>
         IN  votes \o party \o CardWarnings(Tail(cards), parties, constituency_name)

\* a faulty _discover_candidate_details that skips an unavailable page without
\* logging (C4_OneCandidatePageDown must detect it)
_discover_candidate_details_silent(page, parties, state_id, constituency_id, constituency_name, uuid) ==
    IF ~get_with_retry(page).avail \/ page.cards = <<>>
    THEN [records |-> <<>>, log |-> <<>>]
    ELSE [records |-> ParseCards(page.cards, parties, state_id, constituency_id, uuid),
          log |-> CardWarnings(page.cards, parties, constituency_name)
                  \o <<LogEntry("info", "scraped_candidates", constituency_name)>>]

\* _discover_candidate_details for a fetched page: the records and the log entries
_discover_candidate_details(page, parties, state_id, constituency_id, constituency_name, uuid) ==
    IF ~get_with_retry(page).avail
    THEN [records |-> <<>>,
          log |-> <<LogEntry("warning", "cand_fetch", constituency_name)>>]
    ELSE IF page.cards = <<>>
    THEN [records |-> <<>>,
          log |-> <<LogEntry("warning", "no_cand_boxes", constituency_name)>>]
    ELSE [records |-> ParseCards(page.cards, parties, state_id, constituency_id, uuid),
          log |-> CardWarnings(page.cards, parties, constituency_name)
                  \o <<LogEntry("info", "scraped_candidates", constituency_name)>>]

----------------------------------------------------------------------------
(* VidhanSabhaScraper._discover_parties_details *)

\* party_name and symbol of a display string (lines 340-344)
PartyName(full_name) ==
    IF Find(full_name, T_SEP) # 0
    THEN SubSeq(full_name, 1, Find(full_name, T_SEP) - 1)
    ELSE full_name

PartySymbol(full_name) ==
    IF Find(full_name, T_SEP) # 0
    THEN SubSeq(full_name, Find(full_name, T_SEP) + Len(T_SEP), Len(full_name))
    ELSE <<>>

\* the loop over the table's rows; acc holds the list so far, self.state_id and
\* the exception that ended the loop
RECURSIVE VS_PartyRows(_, _)
VS_PartyRows(rows, acc) ==
    IF rows = <<>> \/ acc.exc # NoExc THEN acc
    ELSE LET row == Head(rows)
             code == LinkCode(row.href)
             full_name == Strip(row.full_name)
         IN  IF row.ncols < 4 THEN VS_PartyRows(Tail(rows), acc)
             ELSE IF row.href = NoneText
             THEN [acc EXCEPT !.exc = "TypeError"]
             ELSE VS_PartyRows(Tail(rows),
                    [acc EXCEPT
                       !.state_id = IF acc.state_id = NoneText THEN Last3(code) ELSE @,
                       !.parties =
                          IF PartyName(full_name) # <<>>
                          THEN Append(@, [id |-> AllButLast3(code),
                                          name |-> Strip(PartyName(full_name)),
                                          short_name |-> Strip(PartySymbol(full_name)),
                                          symbol |-> <<>>])
                          ELSE @])

\* _discover_parties_details for the fetched index page: ret is "None" for the
\* bare return statements
VS_discover_parties_details(page, state_id) ==
    IF ~get_with_retry(page).avail
    THEN [ret |-> "None", parties |-> <<>>, state_id |-> state_id, exc |-> NoExc,
          log |-> <<LogEntry("error", "index_fetch", <<>>)>>]
    ELSE IF ~page.table
    THEN [ret |-> "None", parties |-> <<>>, state_id |-> state_id, exc |-> NoExc,
          log |-> <<LogEntry("warning", "no_party_table", <<>>)>>]
    ELSE LET r == VS_PartyRows(page.rows,
                    [parties |-> <<>>, state_id |-> state_id, exc |-> NoExc])
         IN  [ret |-> "list", parties |-> r.parties, state_id |-> r.state_id,
              exc |-> r.exc, log |-> <<LogEntry("info", "scraped_parties", <<>>)>>]

----------------------------------------------------------------------------
(* VidhanSabhaScraper._discover_constituency_details *)

\* the loop over the tbody's rows; acc holds constituencies_data, the
\* seen_constituencies set and the exception that ended the loop
RECURSIVE VS_ConstituencyRows(_, _)
VS_ConstituencyRows(rows, acc) ==
    IF rows = <<>> \/ acc.exc # NoExc THEN acc
    ELSE LET row == Head(rows)
             state_constituency_id == LinkCode(row.href)
             state_id == First3(state_constituency_id)
             constituency_id == From4(state_constituency_id)
             unique_key == state_id \o constituency_id
         IN  IF row.ncols < 1 THEN VS_ConstituencyRows(Tail(rows), acc)
             ELSE IF row.ncols < 2
             THEN [acc EXCEPT !.exc = "IndexError"]
             ELSE IF row.href = NoneText \/ row.href = <<>>
             THEN VS_ConstituencyRows(Tail(rows), acc)
             ELSE IF unique_key \in acc.seen
             THEN VS_ConstituencyRows(Tail(rows), acc)
             ELSE VS_ConstituencyRows(Tail(rows),
                    [acc EXCEPT
                       !.seen = @ \cup {unique_key},
                       !.list = Append(@, [id |-> constituency_id,
                                           name |-> SplitFirst(Strip(row.name), <<"(">>),
                                           state_id |-> state_id])])

\* _discover_constituency_details for the fetched party results page
_discover_constituency_details(page, party_name) ==
    IF ~get_with_retry(page).avail
    THEN [list |-> <<>>, exc |-> NoExc,
          log |-> <<LogEntry("warning", "party_page_fetch", party_name)>>]
    ELSE IF ~page.table
    THEN [list |-> <<>>, exc |-> NoExc,
          log |-> <<LogEntry("warning", "no_table_on_party_page", party_name)>>]
    ELSE IF ~page.tbody
    THEN [list |-> <<>>, exc |-> NoExc,
          log |-> <<LogEntry("info", "discovered_constituencies", party_name)>>]
    ELSE LET r == VS_ConstituencyRows(page.rows,
                    [list |-> <<>>, seen |-> {}, exc |-> NoExc])
         IN  [list |-> r.list, exc |-> r.exc,
              log |-> <<LogEntry("info", "discovered_constituencies", party_name)>>]

----------------------------------------------------------------------------
(* VidhanSabhaScraper._detect_state_info for the fetched index page *)

_detect_state_info(page, base_url) ==
    LET url_year == YearSearch(base_url)
        fetched == get_with_retry(page).avail
        broken == fetched /\ (~page.main \/ ~page.page_title)
        title == fetched /\ ~broken /\ page.h2 # NoneText
        pat == IF title THEN FirstStatePattern(page.h2) ELSE 0
        no_h1 == title /\ url_year = NoYear /\ page.h1 = NoneText
        year == IF url_year # NoYear THEN url_year
                ELSE IF title /\ ~no_h1 THEN YearSearch(page.h1)
                ELSE NoYear
    IN  IF broken \/ no_h1
        THEN [exc |-> "AttributeError", state_code |-> NoneText, state_name |-> "None",
              year |-> url_year, log |-> <<>>]
        ELSE [exc |-> NoExc,
              state_code |-> IF pat # 0 THEN state_patterns[pat].code ELSE T_XX,
              state_name |-> IF pat # 0 THEN state_patterns[pat].name ELSE "Unknown State",
              year |-> IF year # NoYear THEN year ELSE 2024,
              log |-> (IF pat # 0 THEN <<LogEntry("info", "state_from_title", <<>>)>>
                       ELSE <<LogEntry("warning", "no_state_code", <<>>)>>)
                      \o (IF year = NoYear THEN <<LogEntry("warning", "no_year", <<>>)>>
                          ELSE <<>>)]

----------------------------------------------------------------------------
(* LokSabhaScraper._extract_metadata *)

\* str(n) of a natural number
RECURSIVE IntToText(_)
IntToText(n) ==
    LET d == CHOOSE c \in Digits : DigitVal(c) = n % 10
    IN  IF n < 10 THEN <<d>> ELSE Append(IntToText(n \div 10), d)

T_ELECTION_NAME ==
    <<"L", "o", "k", " ", "S", "a", "b", "h", "a", " ", "G", "e", "n", "e", "r", "a", "l", " ", "E", "l", "e", "c", "t", "i", "o", "n", " ">>
T_FOLDER_NAME == <<"l", "o", "k", "-", "s", "a", "b", "h", "a", "-">>

_extract_metadata(base_url) ==
    LET year == IF YearSearch(base_url) # NoYear THEN YearSearch(base_url) ELSE 2024
    IN  [year |-> year,
         election_name |-> T_ELECTION_NAME \o IntToText(year),
         folder_name |-> T_FOLDER_NAME \o IntToText(year)]

----------------------------------------------------------------------------
(* LokSabhaScraper._discover_parties_details *)

\* s.split(" - ")[1] for a text that holds " - "
SecondPiece(s) ==
    SplitFirst(SubSeq(s, Find(s, T_SEP) + Len(T_SEP), Len(s)), T_SEP)

\* the loop over the tbody's rows of the index page
RECURSIVE LS_PartyRows(_, _)
LS_PartyRows(rows, acc) ==
    IF rows = <<>> \/ acc.exc # NoExc THEN acc
    ELSE LET row == Head(rows)
             party_full_name == Strip(row.full_name)
         IN  IF row.ncols < 2 THEN LS_PartyRows(Tail(rows), acc)
             ELSE IF Find(party_full_name, T_SEP) = 0
             THEN [acc EXCEPT !.exc = "IndexError"]
             ELSE IF row.href = NoneText
             THEN [acc EXCEPT !.exc = "TypeError"]
             ELSE LS_PartyRows(Tail(rows),
                    [acc EXCEPT !.list =
                        Append(@, [name |-> SplitFirst(party_full_name, T_SEP),
                                   short_name |-> SecondPiece(party_full_name),
                                   party_id |-> LinkCode(row.href)])])

\* a faulty "Remove duplicates" that keeps the last record of every key
\* (C21_FirstSightingWins must detect it)
RECURSIVE DedupBy_last_wins(_, _, _)
DedupBy_last_wins(list, keys, seen) ==
    IF list = <<>> THEN <<>>
    ELSE IF \E i \in 2..Len(keys) : keys[i] = Head(keys)
    THEN DedupBy_last_wins(Tail(list), Tail(keys), seen)
    ELSE <<Head(list)>> \o DedupBy_last_wins(Tail(list), Tail(keys), seen)

\* "Remove duplicates": the first record of every key, in order; keys[i] is the
\* key of list[i]
RECURSIVE DedupBy(_, _, _)
DedupBy(list, keys, seen) ==
    IF list = <<>> THEN <<>>
    ELSE IF Head(keys) \in seen THEN DedupBy(Tail(list), Tail(keys), seen)
    ELSE <<Head(list)>> \o DedupBy(Tail(list), Tail(keys), seen \cup {Head(keys)})

PartyIds(list) == [i \in 1..Len(list) |-> list[i].party_id]

LS_discover_parties_details(page) ==
    IF ~get_with_retry(page).avail
    THEN [list |-> <<>>, exc |-> NoExc, log |-> <<>>]
    ELSE IF ~page.table
    THEN [list |-> <<>>, exc |-> NoExc,
          log |-> <<LogEntry("warning", "no_party_table", <<>>)>>]
    ELSE LET r == LS_PartyRows(IF page.tbody THEN page.rows ELSE <<>>,
                               [list |-> <<>>, exc |-> NoExc])
         IN  [list |-> DedupBy(r.list, PartyIds(r.list), {}), exc |-> r.exc, log |-> <<>>]

----------------------------------------------------------------------------
(* LokSabhaScraper._scrape_parties *)

\* the loop over the rows of a party's winners page: the candidate records
RECURSIVE LS_WinnerRows(_, _, _)
LS_WinnerRows(rows, party_id, acc) ==
    IF rows = <<>> \/ acc.exc # NoExc THEN acc
    ELSE LET row == Head(rows)
         IN  IF row.ncols < 3 THEN LS_WinnerRows(Tail(rows), party_id, acc)
             ELSE IF row.href = NoneText
             THEN [acc EXCEPT !.exc = "TypeError"]
             ELSE IF ~IntParses(party_id)
             THEN [acc EXCEPT !.exc = "ValueError"]
             ELSE LS_WinnerRows(Tail(rows), party_id,
                    [acc EXCEPT
                       !.uuid = @ + 1,
                       !.list = Append(@,
                          [uuid |-> acc.uuid,
                           party_id |-> IntValue(party_id),
                           constituency |-> Strip(row.constituency),
                           candidate_name |-> Strip(row.candidate_name),
                           votes |-> IF row.ncols > 3 THEN Strip(row.votes) ELSE <<>>,
                           margin |-> IF row.ncols > 4 THEN Strip(row.margin) ELSE <<>>,
                           state_constituency_id |-> LinkCode(row.href)])])

\* lines 126-161 for the fetched winners page of one party
LS_party_page(page, party_id, uuid) ==
    IF get_with_retry(page).avail /\ page.table /\ page.tbody
    THEN LS_WinnerRows(page.rows, party_id, [list |-> <<>>, uuid |-> uuid, exc |-> NoExc])
    ELSE [list |-> <<>>, uuid |-> uuid, exc |-> NoExc]

\* the code points of the characters the model uses, in increasing order
AsciiOrder ==
    <<"\t", "\n", " ", "(", ")", "+", ",", "-", ".",
      "0", "1", "2", "3", "4", "5", "6", "7", "8", "9">> \o UpperAlpha \o LowerAlpha

Ord(c) == CHOOSE i \in 1..Len(AsciiOrder) : AsciiOrder[i] = c

\* s < t for two texts, as Python compares str
RECURSIVE TextLess(_, _)
TextLess(s, t) ==
    IF t = <<>> THEN FALSE
    ELSE IF s = <<>> THEN TRUE
    ELSE IF Head(s) # Head(t) THEN Ord(Head(s)) < Ord(Head(t))
    ELSE TextLess(Tail(s), Tail(t))

\* the sort key (-total_seats, party_name) of line 193
PartyBefore(a, b) ==
    \/ a.total_seats > b.total_seats
    \/ a.total_seats = b.total_seats /\ TextLess(a.party_name, b.party_name)

\* list.sort(key=...): a stable sort
RECURSIVE InsertSorted(_, _)
InsertSorted(sorted, x) ==
    IF sorted = <<>> THEN <<x>>
    ELSE IF PartyBefore(x, Head(sorted)) THEN <<x>> \o sorted
    ELSE <<Head(sorted)>> \o InsertSorted(Tail(sorted), x)

\* a faulty line 193 that leaves the parties in the order of the index page
\* (C22_WinningPartyHasMostSeats must detect it)
SortParties_unsorted(list) == list

RECURSIVE SortParties(_)
SortParties(list) ==
    IF list = <<>> THEN <<>>
    ELSE InsertSorted(SortParties(SubSeq(list, 1, Len(list) - 1)), list[Len(list)])

\* lines 166-186: the parties list with seat counts
LS_build_parties(party_details, party_candidates) ==
    [i \in 1..Len(party_details) |->
        [party_name |-> Strip(PartyName(party_details[i].name)),
         symbol |-> Strip(PartySymbol(party_details[i].name)),
         total_seats |-> Len(party_candidates[i])]]

\* lines 189-190: the candidates of every party, in the dict's order
RECURSIVE Flatten(_)
Flatten(lists) == IF lists = <<>> THEN <<>> ELSE Head(lists) \o Flatten(Tail(lists))

----------------------------------------------------------------------------
(* LokSabhaScraper._discover_states_and_ut and _discover_constituencies_by_state *)

StateCodes(list) == [i \in 1..Len(list) |-> list[i].state_code]
ConstituencyCodes(list) == [i \in 1..Len(list) |-> list[i].constituency_code]

\* the options of the dropdown that carry a value
RECURSIVE StateOptions(_)
StateOptions(options) ==
    IF options = <<>> THEN <<>>
    ELSE (IF Head(options).value # <<>>
          THEN <<[state_code |-> Head(options).value, name |-> Strip(Head(options).text)]>>
          ELSE <<>>) \o StateOptions(Tail(options))

\* ret is "None" where the code returns select_tag, which is None
_discover_states_and_ut(page) ==
    IF ~get_with_retry(page).avail
    THEN [ret |-> "list", list |-> <<>>,
          log |-> <<LogEntry("warning", "states_fetch", <<>>)>>]
    ELSE IF ~page.select
    THEN [ret |-> "None", list |-> <<>>,
          log |-> <<LogEntry("error", "no_state_dropdown", <<>>)>>]
    ELSE [ret |-> "list", list |-> DedupBy(StateOptions(page.options), StateCodes(StateOptions(page.options)), {}),
          log |-> <<LogEntry("info", "discovered_states", <<>>)>>]

RECURSIVE ConstituencyOptions(_, _)
ConstituencyOptions(options, acc) ==
    IF options = <<>> \/ acc.exc # NoExc THEN acc
    ELSE LET option == Head(options)
             text == Strip(option.text)
         IN  IF option.value = <<>> THEN ConstituencyOptions(Tail(options), acc)
             ELSE IF Find(text, <<"-">>) = 0
             THEN [acc EXCEPT !.exc = "IndexError"]
             ELSE ConstituencyOptions(Tail(options),
                    [acc EXCEPT !.list =
                        Append(@,
                          [constituency_code |-> option.value,
                           name |-> SplitFirst(text, <<"-">>),
                           constituency_number |->
                              Strip(SplitFirst(SubSeq(text, Find(text, <<"-">>) + 1, Len(text)),
                                               <<"-">>))])])

_discover_constituencies_by_state(page, state_name) ==
    IF ~get_with_retry(page).avail
    THEN [list |-> <<>>, exc |-> NoExc,
          log |-> <<LogEntry("warning", "state_page_fetch", state_name)>>]
    ELSE IF ~page.select
    THEN [list |-> <<>>, exc |-> NoExc,
          log |-> <<LogEntry("error", "no_constituency_dropdown", state_name)>>]
    ELSE LET r == ConstituencyOptions(page.options, [list |-> <<>>, exc |-> NoExc])
         IN  [list |-> DedupBy(r.list, ConstituencyCodes(r.list), {}), exc |-> r.exc,
              log |-> <<LogEntry("info", "discovered_constituencies", state_name)>>]

\* lines 261-274: the records added to self.constituencies_data for one state
LS_constituency_records(res, state_code) ==
    [i \in 1..Len(res) |->
        [constituency_id |-> res[i].constituency_code,
         constituency_name |-> res[i].name,
         constituency_number |-> res[i].constituency_number,
         state_id |-> state_code]]

\* the summary record of _save_all_data
LS_metadata(s) ==
    [election_id |-> s.folder_name,
     name |-> s.election_name,
     type |-> "LOK_SABHA",
     year |-> s.year,
     total_constituencies |-> Len(s.constituencies_data),
     total_candidates |-> Len(s.candidates_data),
     total_parties |-> Len(s.parties_data),
     result_status |-> "DECLARED",
     winning_party |-> IF s.parties_data # <<>> THEN s.parties_data[1].party_name
                       ELSE NoneText,
     winning_party_seats |-> IF s.parties_data # <<>> THEN s.parties_data[1].total_seats
                             ELSE 0]

----------------------------------------------------------------------------
(* The pages a portal can serve *)

\* all sequences over S of length 0..n
SeqsUpTo(S, n) == UNION {[1..k -> S] : k \in 0..n}

\* the index page of an assembly portal
VS_Titles ==
    { [main |-> FALSE, page_title |-> FALSE, h2 |-> NoneText, h1 |-> NoneText],
      [main |-> TRUE, page_title |-> TRUE, h2 |-> <<"D", "e", "l", "h", "i">>,
       h1 |-> <<"2", "0", "2", "5">>] }

VS_IndexRows ==
    { [ncols |-> 4, full_name |-> <<"A", " ", "-", " ", "a">>,
       href |-> <<"p", "-", "1", "S", "0", "1", ".", "h">>],
      [ncols |-> 4, full_name |-> <<"B">>,
       href |-> <<"p", "-", "2", "S", "0", "1", ".", "h">>],
      [ncols |-> 2, full_name |-> <<"B">>, href |-> NoneText],
      [ncols |-> 4, full_name |-> <<"B">>, href |-> NoneText] }

VS_IndexPages ==
    {Unavailable}
    \cup {[avail |-> TRUE, main |-> t.main, page_title |-> t.page_title, h2 |-> t.h2,
           h1 |-> t.h1, table |-> FALSE, rows |-> <<>>] : t \in VS_Titles}
    \cup {[avail |-> TRUE, main |-> t.main, page_title |-> t.page_title, h2 |-> t.h2,
           h1 |-> t.h1, table |-> TRUE, rows |-> r] :
              t \in {x \in VS_Titles : x.main}, r \in SeqsUpTo(VS_IndexRows, MaxParties)}

\* a party's results page
VS_ConstituencyRowKinds ==
    { [ncols |-> 2, href |-> <<"c", "-", "S", "0", "1", "1", ".", "h">>,
       name |-> <<"K", "(", "1", ")">>],
      [ncols |-> 2, href |-> <<"c", "-", "S", "0", "1", "2", ".", "h">>,
       name |-> <<"M">>],
      [ncols |-> 2, href |-> NoneText, name |-> <<"M">>] }

VS_PartyPages ==
    {Unavailable}
    \cup {[avail |-> TRUE, table |-> FALSE, tbody |-> FALSE, rows |-> <<>>],
          [avail |-> TRUE, table |-> TRUE, tbody |-> FALSE, rows |-> <<>>],
          [avail |-> TRUE, table |-> TRUE, tbody |-> TRUE,
           rows |-> <<[ncols |-> 1, href |-> NoneText, name |-> <<>>]>>]}
    \cup {[avail |-> TRUE, table |-> TRUE, tbody |-> TRUE, rows |-> r] :
              r \in SeqsUpTo(VS_ConstituencyRowKinds, MaxRows)}

\* a constituency's candidate page
CardKinds ==
    { [info |-> TRUE, nme_prty |-> TRUE, image |-> <<"i">>,
       status_divs |-> <<[text |-> <<"w", "o", "n", " ">>, span |-> NoneText],
                         [text |-> <<"5", "0">>, span |-> <<"(", "+", " ", "4", ")">>]>>,
       name |-> <<"X">>, party |-> <<"A">>],
      [info |-> TRUE, nme_prty |-> TRUE, image |-> NoneText,
       status_divs |-> <<[text |-> <<"L", "o", "s", "t">>, span |-> NoneText],
                         [text |-> <<"4", "6">>, span |-> <<"(", "-", "4", ")">>]>>,
       name |-> <<"Y">>, party |-> <<"b">>],
      [info |-> FALSE, nme_prty |-> FALSE, image |-> NoneText,
       status_divs |-> NoneList, name |-> <<>>, party |-> <<>>] }

VS_CandidatePages ==
    {Unavailable}
    \cup {[avail |-> TRUE, cards |-> c] : c \in SeqsUpTo(CardKinds, MaxCards)}

\* the index page of a national portal
LS_IndexRows ==
    { [ncols |-> 2, full_name |-> <<"A", " ", "-", " ", "a">>,
       href |-> <<"p", "-", "1", ".", "h">>],
      [ncols |-> 2, full_name |-> <<"B", " ", "-", " ", "b">>,
       href |-> <<"p", "-", "2", ".", "h">>],
      [ncols |-> 2, full_name |-> <<"B">>, href |-> <<"p", "-", "2", ".", "h">>] }

LS_StateOptions ==
    { [value |-> <<"S", "0", "1">>, text |-> <<"G", "o", "a">>],
      [value |-> <<"S", "0", "2">>, text |-> <<"D", "i", "u">>],
      [value |-> <<>>, text |-> <<"A", "l", "l">>] }

LS_Dropdowns ==
    {[select |-> FALSE, options |-> <<>>]}
    \cup {[select |-> TRUE, options |-> o] : o \in SeqsUpTo(LS_StateOptions, MaxStates)}

LS_IndexPages ==
    {Unavailable}
    \cup {[avail |-> TRUE, table |-> FALSE, tbody |-> FALSE, rows |-> <<>>,
           select |-> d.select, options |-> d.options] : d \in LS_Dropdowns}
    \cup {[avail |-> TRUE, table |-> TRUE, tbody |-> TRUE, rows |-> r,
           select |-> d.select, options |-> d.options] :
              r \in SeqsUpTo(LS_IndexRows, MaxParties), d \in LS_Dropdowns}

\* a party's winners page
LS_WinnerRowKinds ==
    { [ncols |-> 5, href |-> <<"c", "-", "S", "0", "1", "1", ".", "h">>,
       constituency |-> <<"K", "(", "1", ")">>, candidate_name |-> <<"X">>,
       votes |-> <<"5", "0">>, margin |-> <<"4">>],
      [ncols |-> 3, href |-> NoneText,
       constituency |-> <<"M">>, candidate_name |-> <<"Y">>,
       votes |-> <<>>, margin |-> <<>>] }

LS_PartyPages ==
    {Unavailable}
    \cup {[avail |-> TRUE, table |-> FALSE, tbody |-> FALSE, rows |-> <<>>]}
    \cup {[avail |-> TRUE, table |-> TRUE, tbody |-> TRUE, rows |-> r] :
              r \in SeqsUpTo(LS_WinnerRowKinds, MaxRows)}

\* a state's page with the constituency dropdown
LS_ConstituencyOptions ==
    { [value |-> <<"1">>, text |-> <<"K", " ", "-", " ", "1">>],
      [value |-> <<"2">>, text |-> <<"M">>] }

LS_StatePages ==
    {Unavailable}
    \cup {[avail |-> TRUE, select |-> FALSE, options |-> <<>>]}
    \cup {[avail |-> TRUE, select |-> TRUE, options |-> o] :
              o \in SeqsUpTo(LS_ConstituencyOptions, MaxRows)}

\* what the portal can serve at a URL
PagesAt(url) ==
    CASE url.kind = "index" -> IF crawler = "VS" THEN VS_IndexPages ELSE LS_IndexPages
      [] url.kind = "party" -> VS_PartyPages
      [] url.kind = "cand" -> VS_CandidatePages
      [] url.kind = "partyState" -> LS_PartyPages
      [] url.kind = "state" -> LS_StatePages

\* the pages a fetch of url can return: the page already revealed, or any page
Fetchable(url) == IF url \in DOMAIN portal THEN {portal[url]} ELSE PagesAt(url)

Reveal(url, page) == IF url \in DOMAIN portal THEN portal ELSE portal @@ (url :> page)

----------------------------------------------------------------------------
(* The scraper object *)

BaseUrls == { <<"A", "c", "2", "0", "2", "5">> }

NoMetadata == [election_id |-> NoneText]

\* __init__ (both classes)
NewScraper(url) ==
    [base_url |-> url, state_code |-> NoneText, state_name |-> "None",
     state_id |-> NoneText, year |-> NoYear,
     election_name |-> NoMetadata, folder_name |-> NoMetadata,
     parties_data |-> <<>>, constituencies_data |-> <<>>, candidates_data |-> <<>>,
     metadata |-> NoMetadata, all_states |-> <<>>]

\* the local variables of scrape() and of the methods it is inside of
NoLocals ==
    [party |-> 1, constituencies |-> <<>>, constituency |-> 1, uuid |-> 1,
     party_details |-> <<>>, party_candidates |-> <<>>, states |-> <<>>, state |-> 1,
     cards |-> <<>>, normalized |-> <<>>]

\* no database is attached to a crawler run
NoStore == [tables |-> <<>>]

Init ==
    /\ crawler \in {"VS", "LS"}
    /\ pc = "start"
    /\ portal = <<>>
    /\ \E url \in BaseUrls : self = NewScraper(url)
    /\ loc = NoLocals
    /\ files = NoFiles
    /\ log = <<>>
    /\ events = <<>>
    /\ exc = NoExc
    /\ store = NoStore

----------------------------------------------------------------------------
(* VidhanSabhaScraper.scrape, step by step *)

\* line 132: self._detect_state_info()
VS_DetectStateInfo ==
    /\ crawler = "VS" /\ pc = "start"
    /\ \E page \in Fetchable(IndexUrl) :
        LET r == _detect_state_info(page, self.base_url)
        IN  /\ portal' = Reveal(IndexUrl, page)
            /\ events' = Append(events, FetchEvent(IndexUrl, page.avail))
            /\ log' = log \o r.log
            /\ self' = [self EXCEPT !.state_code = r.state_code,
                                    !.state_name = r.state_name,
                                    !.year = r.year]
            /\ exc' = r.exc
            /\ pc' = IF r.exc # NoExc THEN "raised" ELSE "parties"
    /\ UNCHANGED <<store, crawler, loc, files>>

\* lines 148-151: _scrape_parties, save_json and the "Found n parties" entry
VS_ScrapeParties ==
    /\ crawler = "VS" /\ pc = "parties"
    /\ \E page \in Fetchable(IndexUrl) :
        LET r == VS_discover_parties_details(page, self.state_id)
            none == r.ret = "None" \/ r.parties = <<>>
            parties_data == IF none THEN NoneList ELSE r.parties
        IN  /\ portal' = Reveal(IndexUrl, page)
            /\ IF r.exc # NoExc
               THEN /\ events' = Append(events, FetchEvent(IndexUrl, page.avail))
                    /\ log' = log
                    /\ self' = [self EXCEPT !.state_id = r.state_id]
                    /\ files' = files
                    /\ exc' = r.exc
                    /\ pc' = "raised"
               ELSE /\ events' = events \o <<FetchEvent(IndexUrl, page.avail),
                                             WriteEvent("parties")>>
                    /\ self' = [self EXCEPT !.state_id = r.state_id,
                                            !.parties_data = parties_data]
                    /\ files' = [files EXCEPT !["parties"] = save_json(parties_data)]
                    /\ log' = log \o r.log
                                \o (IF none
                                    THEN <<LogEntry("warning", "no_parties", <<>>)>>
                                    ELSE <<LogEntry("info", "found_parties", <<>>)>>)
                    /\ exc' = IF none THEN "TypeError" ELSE NoExc
                    /\ pc' = IF none THEN "raised" ELSE "party"
    /\ UNCHANGED <<store, crawler, loc>>

\* lines 153-167: the next party's results page and the append of its constituencies
VS_ScrapeConstituencies ==
    /\ crawler = "VS" /\ pc = "party"
    /\ loc.party <= Len(self.parties_data)
    /\ LET party == self.parties_data[loc.party]
           url == _generate_party_page_link(party.id \o self.state_id)
       IN  \E page \in Fetchable(url) :
            LET r == _discover_constituency_details(page, party.name)
            IN  /\ portal' = Reveal(url, page)
                /\ IF r.exc # NoExc
                   THEN /\ events' = Append(events, FetchEvent(url, page.avail))
                        /\ UNCHANGED <<log, files, loc>>
                        /\ exc' = r.exc
                        /\ pc' = "raised"
                   ELSE IF r.list = <<>>
                   THEN /\ events' = Append(events, FetchEvent(url, page.avail))
                        /\ log' = log \o r.log
                                    \o <<LogEntry("warning", "no_constituencies", party.name)>>
                        /\ loc' = [loc EXCEPT !.party = @ + 1]
                        /\ UNCHANGED <<files, exc, pc>>
                   ELSE /\ events' = events \o <<FetchEvent(url, page.avail)>>
                                       \o [i \in 1..Len(r.list) |-> WriteEvent("constituencies")]
                        /\ log' = log \o r.log
                        /\ files' = [files EXCEPT !["constituencies"] = AppendAll(@, r.list)]
                        /\ loc' = [loc EXCEPT !.constituencies = r.list, !.constituency = 1]
                        /\ pc' = "cand"
                        /\ UNCHANGED exc
    /\ UNCHANGED <<store, crawler, self>>

\* lines 170-190: the next constituency's candidate page and the append of its candidates
VS_ScrapeCandidates ==
    /\ crawler = "VS" /\ pc = "cand"
    /\ LET constituency == loc.constituencies[loc.constituency]
           url == _generate_constituency_page_link(constituency.state_id, constituency.id)
           last == loc.constituency = Len(loc.constituencies)
       IN  \E page \in Fetchable(url) :
            LET r == _discover_candidate_details(page, self.parties_data,
                        constituency.state_id, constituency.id, constituency.name, loc.uuid)
            IN  /\ portal' = Reveal(url, page)
                /\ events' = events \o <<FetchEvent(url, page.avail)>>
                               \o [i \in 1..Len(r.records) |-> WriteEvent("candidates")]
                /\ log' = log \o r.log
                            \o <<LogEntry("info", "candidates_saved", constituency.name)>>
                /\ files' = [files EXCEPT !["candidates"] = AppendAll(@, r.records)]
                /\ loc' = [loc EXCEPT !.uuid = @ + Len(r.records),
                                      !.constituency = IF last THEN 1 ELSE @ + 1,
                                      !.constituencies = IF last THEN <<>> ELSE @,
                                      !.party = IF last THEN @ + 1 ELSE @]
                /\ pc' = IF last THEN "party" ELSE "cand"
    /\ UNCHANGED <<store, crawler, self, exc>>

\* lines 193-200: the record counts and the closing log entries
VS_Finish ==
    /\ crawler = "VS" /\ pc = "party"
    /\ loc.party > Len(self.parties_data)
    /\ log' = Append(log, LogEntry("info", "completed", <<>>))
    /\ pc' = "done"
    /\ UNCHANGED <<store, crawler, portal, self, loc, files, events, exc>>

----------------------------------------------------------------------------
(* LokSabhaScraper.scrape, step by step *)

\* line 60: self._extract_metadata()
LS_ExtractMetadata ==
    /\ crawler = "LS" /\ pc = "start"
    /\ LET r == _extract_metadata(self.base_url)
       IN  self' = [self EXCEPT !.year = r.year,
                                !.election_name = r.election_name,
                                !.folder_name = r.folder_name]
    /\ pc' = "parties"
    /\ UNCHANGED <<store, crawler, portal, loc, files, log, events, exc>>

\* lines 99-109: _discover_parties_details and the early return of _scrape_parties
LS_DiscoverParties ==
    /\ crawler = "LS" /\ pc = "parties"
    /\ \E page \in Fetchable(IndexUrl) :
        LET r == LS_discover_parties_details(page)
        IN  /\ portal' = Reveal(IndexUrl, page)
            /\ events' = Append(events, FetchEvent(IndexUrl, page.avail))
            /\ exc' = r.exc
            /\ IF r.exc # NoExc
               THEN /\ pc' = "raised"
                    /\ UNCHANGED <<log, loc>>
               ELSE IF r.list = <<>>
               THEN /\ pc' = "constituencies"
                    /\ log' = log \o r.log \o <<LogEntry("warning", "no_parties", <<>>)>>
                    /\ UNCHANGED loc
               ELSE /\ pc' = "party"
                    /\ log' = log \o r.log \o <<LogEntry("info", "found_parties", <<>>)>>
                    /\ loc' = [loc EXCEPT !.party_details = r.list,
                                          !.party_candidates = [i \in 1..Len(r.list) |-> <<>>],
                                          !.party = 1]
    /\ UNCHANGED <<store, crawler, self, files>>

\* lines 111-163: one iteration of the loop over party_details
LS_ScrapePartyPage ==
    /\ crawler = "LS" /\ pc = "party"
    /\ loc.party <= Len(loc.party_details)
    /\ LET party_info == loc.party_details[loc.party]
           url == Url("partyState", party_info.party_id)
       IN  \E page \in Fetchable(url) :
            LET r == LS_party_page(page, party_info.party_id, loc.uuid)
                fetches == IF page.avail THEN <<FetchEvent(url, TRUE)>>
                           ELSE <<FetchEvent(url, FALSE), FetchEvent(url, FALSE)>>
            IN  /\ portal' = Reveal(url, page)
                /\ log' = Append(log, LogEntry("info", "party_progress", party_info.name))
                /\ exc' = r.exc
                /\ IF r.exc # NoExc
                   THEN /\ events' = events \o fetches
                        /\ pc' = "raised"
                        /\ UNCHANGED loc
                   ELSE /\ events' = events \o fetches \o <<SleepEvent>>
                        /\ loc' = [loc EXCEPT !.party_candidates[loc.party] = r.list,
                                              !.uuid = r.uuid,
                                              !.party = @ + 1]
                        /\ UNCHANGED pc
    /\ UNCHANGED <<store, crawler, self, files>>

\* a faulty end of _scrape_parties that writes parties.json at once
\* (C18_NothingWrittenBeforeSave must detect it)
LS_BuildParties_flushing ==
    /\ crawler = "LS" /\ pc = "party"
    /\ loc.party > Len(loc.party_details)
    /\ self' = [self EXCEPT
                  !.parties_data =
                      SortParties(@ \o LS_build_parties(loc.party_details,
                                                        loc.party_candidates)),
                  !.candidates_data = @ \o Flatten(loc.party_candidates)]
    /\ files' = [files EXCEPT !["parties"] = save_json(self'.parties_data)]
    /\ events' = Append(events, WriteEvent("parties"))
    /\ log' = Append(log, LogEntry("info", "scraped_parties", <<>>))
    /\ pc' = "constituencies"
    /\ UNCHANGED <<store, crawler, portal, loc, exc>>

\* lines 165-195: the parties list, the candidates and the sort
LS_BuildParties ==
    /\ crawler = "LS" /\ pc = "party"
    /\ loc.party > Len(loc.party_details)
    /\ self' = [self EXCEPT
                  !.parties_data =
                      SortParties(@ \o LS_build_parties(loc.party_details,
                                                        loc.party_candidates)),
                  !.candidates_data = @ \o Flatten(loc.party_candidates)]
    /\ log' = Append(log, LogEntry("info", "scraped_parties", <<>>))
    /\ pc' = "constituencies"
    /\ UNCHANGED <<store, crawler, portal, loc, files, events, exc>>

\* lines 250-253: _discover_constituency_links and _discover_states_and_ut
LS_DiscoverStates ==
    /\ crawler = "LS" /\ pc = "constituencies"
    /\ \E page \in Fetchable(IndexUrl) :
        LET r == _discover_states_and_ut(page)
        IN  /\ portal' = Reveal(IndexUrl, page)
            /\ events' = events \o <<FetchEvent(IndexUrl, page.avail),
                                     FetchEvent(IndexUrl, page.avail)>>
            /\ log' = log
                      \o (IF page.avail
                          THEN <<LogEntry("info", "discovered_links", <<>>)>>
                          ELSE <<LogEntry("warning", "links_fetch", <<>>)>>)
                      \o r.log
            /\ self' = [self EXCEPT !.all_states =
                          Append(@, IF r.ret = "None" THEN NoneList ELSE r.list)]
            /\ exc' = IF r.ret = "None" THEN "TypeError" ELSE NoExc
            /\ pc' = IF r.ret = "None" THEN "raised" ELSE "state"
            /\ loc' = [loc EXCEPT !.states = r.list, !.state = 1]
    /\ UNCHANGED <<store, crawler, files>>

\* lines 256-274: one iteration of the loop over states_and_ut
LS_ScrapeState ==
    /\ crawler = "LS" /\ pc = "state"
    /\ loc.state <= Len(loc.states)
    /\ LET state == loc.states[loc.state]
           url == Url("state", state.state_code)
       IN  \E page \in Fetchable(url) :
            LET r == _discover_constituencies_by_state(page, state.name)
            IN  /\ portal' = Reveal(url, page)
                /\ events' = Append(events, FetchEvent(url, page.avail))
                /\ exc' = r.exc
                /\ IF r.exc # NoExc
                   THEN /\ pc' = "raised"
                        /\ UNCHANGED <<log, self, loc>>
                   ELSE /\ log' = log \o r.log
                        /\ self' = [self EXCEPT !.constituencies_data =
                                      @ \o LS_constituency_records(r.list, state.state_code)]
                        /\ loc' = [loc EXCEPT !.state = @ + 1]
                        /\ UNCHANGED pc
    /\ UNCHANGED <<store, crawler, files>>

\* line 75: _save_all_data
LS_SaveAllData ==
    /\ crawler = "LS" /\ pc = "state"
    /\ loc.state > Len(loc.states)
    /\ self' = [self EXCEPT !.metadata = LS_metadata(self)]
    /\ files' = [files EXCEPT
                   !["states"] = save_json(self.all_states),
                   !["parties"] = save_json(self.parties_data),
                   !["constituencies"] = save_json(self.constituencies_data),
                   !["candidates"] = save_json(self.candidates_data),
                   !["summary"] = save_json(<<LS_metadata(self)>>)]
    /\ events' = events \o <<WriteEvent("states"), WriteEvent("parties"),
                             WriteEvent("constituencies"), WriteEvent("candidates"),
                             WriteEvent("summary")>>
    /\ log' = log \o <<LogEntry("info", "saved", <<>>), LogEntry("info", "completed", <<>>)>>
    /\ pc' = "done"
    /\ UNCHANGED <<store, crawler, portal, loc, exc>>

----------------------------------------------------------------------------

Next ==
    \/ VS_DetectStateInfo
    \/ VS_ScrapeParties
    \/ VS_ScrapeConstituencies
    \/ VS_ScrapeCandidates
    \/ VS_Finish
    \/ LS_ExtractMetadata
    \/ LS_DiscoverParties
    \/ LS_ScrapePartyPage
    \/ LS_BuildParties
    \/ LS_DiscoverStates
    \/ LS_ScrapeState
    \/ LS_SaveAllData

Spec == Init /\ [][Next]_vars

----------------------------------------------------------------------------
(* scripts/migrations/migrate_json_to_db.py: status normalisation *)

\* a faulty normalize_candidate_status that passes an unrecognised word through
\* (C8_StatusWonOrLost must detect it)
normalize_candidate_status_passthrough(status) ==
    IF status = NoneText \/ status = <<>> \/ Strip(status) = <<>> THEN T_LOST
    ELSE Upper(Strip(status))

\* normalize_candidate_status; NoneText is a null or missing "status"
normalize_candidate_status(status) ==
    IF status = NoneText \/ status = <<>> \/ Strip(status) = <<>> THEN T_LOST
    ELSE IF Upper(Strip(status)) = T_WON THEN T_WON
    ELSE IF Upper(Strip(status)) = T_LOST THEN T_LOST
    ELSE T_LOST

\* normalize_candidates_data: every record copied, its status normalised
normalize_candidates_data(candidates_data) ==
    [i \in 1..Len(candidates_data) |->
        [candidates_data[i] EXCEPT !.status = normalize_candidate_status(@)]]

----------------------------------------------------------------------------
(* Inputs of the text-level runs: one candidate card, or a candidates.json *)

StatusTexts ==
    { <<>>,
      <<" ">>,
      <<"w", "o", "n">>,
      <<" ", "W", "o", "n", " ">>,
      <<"W", "O", "N">>,
      <<"l", "o", "s", "t">>,
      <<"U", "N", "K", "N", "O", "W", "N">>,
      <<"l", "e", "a", "d", "i", "n", "g">>,
      <<"w", "o", "n", "x">> }

VoteTexts ==
    { <<"1", "2", "3", "4", "5", "6">>,
      <<"5", "0", " ">>,
      <<>>,
      <<"x">>,
      <<"1", ",", "2">>,
      <<"-", "3">> }

MarginSpans ==
    { NoneText,
      <<"(", "+", "4", ",", "3", "2", "1", ")">>,
      <<"(", "+", "4", "3", "2", "1", ")">>,
      <<"(", " ", "+", " ", "4", "0", ")">>,
      <<"(", "-", "4", ")">>,
      <<"(", "x", ")">>,
      <<"(", ")">> }

\* candidate cards with every combination of status text, vote text and margin span,
\* and cards whose status div is missing or has fewer child divs
TextCards ==
    {[info |-> TRUE, nme_prty |-> TRUE, image |-> NoneText,
      status_divs |-> <<[text |-> st, span |-> NoneText], [text |-> v, span |-> m]>>,
      name |-> <<"X">>, party |-> <<"A">>] :
         st \in StatusTexts, v \in VoteTexts, m \in MarginSpans}
    \cup {[info |-> TRUE, nme_prty |-> TRUE, image |-> NoneText,
           status_divs |-> d, name |-> <<"X">>, party |-> <<"A">>] :
         d \in {NoneList, <<>>} \cup {<<[text |-> st, span |-> NoneText]>> : st \in StatusTexts}}

\* the records of a candidates.json read by the migration: "status" is a text or null
RawCandidates ==
    {[name |-> <<"X">>, status |-> st] : st \in StatusTexts \cup {NoneText}}

InitText ==
    /\ crawler \in {"CARD", "JSON"}
    /\ portal = <<>>
    /\ self \in IF crawler = "CARD"
                THEN {NewScraper(<<>>)}
                ELSE {[NewScraper(<<>>) EXCEPT !.candidates_data = c] :
                        c \in SeqsUpTo(RawCandidates, MaxMigrate)}
    /\ pc = IF crawler = "CARD" THEN "card" ELSE "loaded"
    /\ loc \in IF crawler = "CARD"
               THEN {[NoLocals EXCEPT !.cards = <<c>>] : c \in TextCards}
               ELSE {NoLocals}
    /\ files = NoFiles
    /\ log = <<>>
    /\ events = <<>>
    /\ exc = NoExc
    /\ store = NoStore

\* _discover_candidate_details on a page that holds the card
ParseCard ==
    /\ crawler = "CARD" /\ pc = "card"
    /\ LET r == _discover_candidate_details([avail |-> TRUE, cards |-> loc.cards], <<>>,
                    <<"S", "0", "1">>, <<"1">>, <<"K">>, loc.uuid)
       IN  /\ self' = [self EXCEPT !.candidates_data = r.records]
           /\ log' = log \o r.log
           /\ loc' = [loc EXCEPT !.uuid = @ + Len(r.records)]
    /\ pc' = "loaded"
    /\ UNCHANGED <<store, crawler, portal, files, events, exc>>

\* migrate_candidates, line 146: normalize_candidates_data on the loaded records
NormalizeCandidates ==
    /\ crawler \in {"CARD", "JSON"} /\ pc = "loaded"
    /\ loc' = [loc EXCEPT !.normalized = normalize_candidates_data(self.candidates_data)]
    /\ pc' = "normalized"
    /\ UNCHANGED <<store, crawler, portal, self, files, log, events, exc>>

NextText == ParseCard \/ NormalizeCandidates

SpecText == InitText /\ [][NextText]_vars

----------------------------------------------------------------------------
(* Helpers of the properties *)

Range(seq) == {seq[i] : i \in 1..Len(seq)}

Terminal == pc \in {"done", "raised"}

\* the composite key (state code, local code) of a constituencies.json record
CompositeKey(c) ==
    IF crawler = "VS" THEN <<c.state_id, c.id>> ELSE <<c.state_id, c.constituency_id>>

\* the fetches of the history, by the kind of page
FetchesOf(kinds) == {i \in 1..Len(events) : events[i].ev = "fetch" /\ events[i].url.kind \in kinds}
Writes == {i \in 1..Len(events) : events[i].ev = "write"}

RevealedUrls(kind) == {u \in DOMAIN portal : u.kind = kind}

----------------------------------------------------------------------------
(* C1: at the end of a run no two records of constituencies.json have the *)
(* same composite key (state code + local code), also when one            *)
(* constituency link is listed on the results pages of two parties.       *)
(* (Stated for runs whose index page lists every party once, so that a    *)
(* repeated record cannot come from a repeated party row.)                *)
C1_UniqueCompositeKeys ==
    (/\ pc = "done"
     /\ \A i, j \in 1..Len(files["parties"].data) :
            files["parties"].data[i] = files["parties"].data[j] => i = j) =>
        LET data == files["constituencies"].data
        IN  \A i, j \in 1..Len(data) :
                CompositeKey(data[i]) = CompositeKey(data[j]) => i = j

----------------------------------------------------------------------------
(* C2, as stated: the stages are strictly ordered. Once a candidate page  *)
(* has been fetched no party results page is fetched, and no artifact is  *)
(* written before candidate discovery has finished (no fetch follows a    *)
(* write).                                                                *)
C2_StrictStageOrder ==
    /\ \A i \in FetchesOf({"cand"}) : \A j \in FetchesOf({"party"}) : j < i
    /\ \A i \in Writes : \A j \in FetchesOf({"index", "party", "cand", "partyState", "state"}) :
            j < i

(* C2, amended: metadata extraction and party discovery come first; the   *)
(* assembly crawler then works party by party (a candidate page is        *)
(* fetched only after the results page of a party and after the           *)
(* constituency has been appended to constituencies.json, and             *)
(* parties.json is written before the first party results page is         *)
(* fetched); the national crawler writes no artifact before all of its    *)
(* fetches are done.                                                      *)
C2_StageOrderPerCrawler ==
    /\ \A i \in FetchesOf({"party", "cand", "partyState", "state"}) :
            /\ self.year # NoYear
            /\ \E j \in FetchesOf({"index"}) : j < i
    /\ crawler = "VS" =>
        /\ \A i \in FetchesOf({"party"}) :
                \E w \in Writes : w < i /\ events[w].file = "parties"
        /\ pc \in {"party", "cand", "done"} => files["parties"].exists
        /\ \A i \in FetchesOf({"cand"}) :
                /\ \E j \in FetchesOf({"party"}) : j < i
                /\ \E c \in Range(files["constituencies"].data) :
                        _generate_constituency_page_link(c.state_id, c.id) = events[i].url
        /\ pc = "cand" =>
                loc.constituencies[loc.constituency] \in Range(files["constituencies"].data)
    /\ crawler = "LS" =>
        /\ \A i \in Writes : \A j \in FetchesOf({"index", "partyState", "state"}) : j < i
        /\ pc # "done" => \A f \in FileNames : ~files[f].exists

\* an assembly run that fetched a second party's results page after a candidate page
C2_Witness ==
    /\ crawler = "VS" /\ pc = "done"
    /\ \E i \in FetchesOf({"cand"}) : \E j \in FetchesOf({"party"}) : i < j
    /\ files["candidates"].exists

----------------------------------------------------------------------------
(* C3: when the index page is unavailable a run does not raise, logs an   *)
(* error, fetches no party, constituency or candidate page and ends with  *)
(* empty parties, constituencies and candidates collections.              *)
C3_IndexUnavailable ==
    (IndexUrl \in DOMAIN portal /\ ~portal[IndexUrl].avail) =>
        /\ pc # "raised"
        /\ FetchesOf({"party", "cand", "partyState", "state"}) = {}
        /\ pc = "done" =>
            /\ \E i \in 1..Len(log) : log[i].level = "error"
            /\ self.parties_data = <<>>
            /\ self.constituencies_data = <<>>
            /\ self.candidates_data = <<>>

----------------------------------------------------------------------------
(* C4: when exactly one constituency's candidate page is unavailable and  *)
(* every other page is available (and no row lacks its link cell), the    *)
(* assembly run does not raise, logs a warning naming that constituency   *)
(* and candidates.json holds exactly the candidates of the other          *)
(* constituencies.                                                        *)

\* no fetched page holds a row without the cell its link is read from
NoRowWithoutLinkCell ==
    \A u \in DOMAIN portal :
        (u.kind \in {"index", "party"} /\ portal[u].avail) =>
            \A r \in Range(portal[u].rows) :
                IF u.kind = "index" THEN r.ncols >= 4 => r.href # NoneText
                ELSE r.ncols # 1

\* u is the only page that was unavailable, and it is a candidate page
OnlyUnavailable(u) ==
    /\ u \in RevealedUrls("cand")
    /\ \A v \in DOMAIN portal : ~portal[v].avail <=> v = u

\* (composite code, candidate name) of the cards, holding a name and a party, of
\* the available candidate pages
PortalCandidates ==
    UNION {{<<v.code, Strip(card.name)>> :
                card \in {k \in Range(portal[v].cards) : k.info /\ k.nme_prty}} :
           v \in {x \in RevealedUrls("cand") : portal[x].avail}}

\* (composite code, candidate name) of the records of candidates.json
FileCandidates ==
    {<<r.state_id \o r.constituency_id, r.name>> : r \in Range(files["candidates"].data)}

C4_OneCandidatePageDown ==
    \A u \in RevealedUrls("cand") :
        (crawler = "VS" /\ OnlyUnavailable(u) /\ NoRowWithoutLinkCell) =>
            /\ pc # "raised"
            /\ pc = "done" =>
                /\ \A c \in Range(files["constituencies"].data) :
                        /\ _generate_constituency_page_link(c.state_id, c.id) \in DOMAIN portal
                        /\ c.state_id \o c.id = u.code =>
                              LogEntry("warning", "cand_fetch", c.name) \in Range(log)
                /\ \A r \in Range(files["candidates"].data) :
                        r.state_id \o r.constituency_id # u.code
                /\ FileCandidates = PortalCandidates

C4_Witness ==
    /\ crawler = "VS" /\ pc = "done"
    /\ \E u \in RevealedUrls("cand") : OnlyUnavailable(u)
    /\ NoRowWithoutLinkCell
    /\ files["candidates"].exists

----------------------------------------------------------------------------
(* C5: when an expected structural marker (results table, table body,     *)
(* dropdown, link cell of a row, candidate card container) is absent from *)
(* a fetched page, extraction yields zero rows and never raises.          *)
C5_MissingMarkerNeverRaises ==
    (/\ \A u \in DOMAIN portal : portal[u].avail
     /\ crawler = "VS" => \A u \in RevealedUrls("index") : portal[u].main)
        => pc # "raised"

----------------------------------------------------------------------------
(* C6: for every party of a run's output the recorded seat count equals   *)
(* the number of candidate records of the run whose party_id is the       *)
(* party's identifier and whose status is WON.                            *)
WonRecordsOf(party_id) ==
    {i \in 1..Len(files["candidates"].data) :
        LET c == files["candidates"].data[i]
        IN  /\ c.party_id = party_id
            /\ "status" \in DOMAIN c
            /\ c.status = T_WON}

C6_SeatCounts ==
    pc = "done" =>
        \A p \in Range(files["parties"].data) :
            /\ "total_seats" \in DOMAIN p
            /\ "id" \in DOMAIN p
            /\ p.total_seats = Cardinality(WonRecordsOf(p.id))

----------------------------------------------------------------------------
(* C7: every completed run writes a summary record whose total_parties,   *)
(* total_constituencies and total_candidates equal the numbers of records *)
(* of the three artifacts the run wrote.                                  *)
C7_SummaryTotals ==
    pc = "done" =>
        /\ files["summary"].exists
        /\ Len(files["summary"].data) = 1
        /\ files["summary"].data[1].total_parties = count_json_records(files["parties"])
        /\ files["summary"].data[1].total_constituencies
              = count_json_records(files["constituencies"])
        /\ files["summary"].data[1].total_candidates
              = count_json_records(files["candidates"])

----------------------------------------------------------------------------
(* C8: after normalisation every candidate's status is exactly WON or     *)
(* LOST: it is WON when the source text, trimmed, is "won" in any letter  *)
(* case, and LOST for every other text (empty, blank, UNKNOWN, another    *)
(* word, null); no record is dropped and nothing raises.                  *)

\* the text is "won" in any letter case, surrounded by any whitespace
IsWonText(text) ==
    /\ text # NoneText
    /\ \E i \in 1..Len(text) :
        /\ i + 2 <= Len(text)
        /\ text[i] \in {"w", "W"} /\ text[i + 1] \in {"o", "O"} /\ text[i + 2] \in {"n", "N"}
        /\ \A k \in 1..Len(text) : (k < i \/ k > i + 2) => text[k] \in Whitespace

\* the status text the normalised record i comes from: the card's first status
\* div, or the raw record's "status"
SourceStatus(i) ==
    IF crawler = "JSON" THEN self.candidates_data[i].status
    ELSE IF loc.cards[1].status_divs # NoneList /\ Len(loc.cards[1].status_divs) > 0
    THEN loc.cards[1].status_divs[1].text
    ELSE T_UNKNOWN

C8_StatusWonOrLost ==
    pc = "normalized" =>
        /\ exc = NoExc
        /\ Len(loc.normalized) = Len(self.candidates_data)
        /\ crawler = "CARD" => Len(loc.normalized) = 1
        /\ \A i \in 1..Len(loc.normalized) :
            /\ loc.normalized[i].status \in {T_WON, T_LOST}
            /\ loc.normalized[i].status = T_WON <=> IsWonText(SourceStatus(i))

C8_Witness ==
    /\ pc = "normalized"
    /\ \E i \in 1..Len(loc.normalized) :
        /\ loc.normalized[i].status = T_LOST
        /\ SourceStatus(i) \notin {NoneText, <<>>, <<"l", "o", "s", "t">>}
        /\ Strip(SourceStatus(i)) # <<>>
    /\ \E i \in 1..Len(loc.normalized) :
        /\ loc.normalized[i].status = T_WON
        /\ SourceStatus(i) # T_WON

----------------------------------------------------------------------------
(* C9: for vote text "<digits>(<sign><digits with thousands separators>)" *)
(* such as "123456(+4,321)", total_votes is the leading integer and       *)
(* margin is the bracketed number with sign and separators removed.       *)

\* the digits of a text, in order
RECURSIVE OnlyDigits(_)
OnlyDigits(s) ==
    IF s = <<>> THEN <<>>
    ELSE (IF Head(s) \in Digits THEN <<Head(s)>> ELSE <<>>) \o OnlyDigits(Tail(s))

\* "(", a sign, digits with "," between them, ")"
IsBracketedNumber(span) ==
    /\ span # NoneText
    /\ Len(span) >= 4
    /\ span[1] = "(" /\ span[2] \in {"+", "-"} /\ span[Len(span)] = ")"
    /\ span[3] \in Digits /\ span[Len(span) - 1] \in Digits
    /\ \A k \in 3..(Len(span) - 1) : span[k] \in Digits \cup {","}

\* the votes div of the parsed card
ParsedVotesDiv == loc.cards[1].status_divs[2]

HasVotesDiv ==
    /\ crawler = "CARD" /\ pc \in {"loaded", "normalized"}
    /\ loc.cards[1].status_divs # NoneList
    /\ Len(loc.cards[1].status_divs) > 1

C9_VotesAndMargin ==
    (/\ HasVotesDiv
     /\ IsDigit(ParsedVotesDiv.text)
     /\ IsBracketedNumber(ParsedVotesDiv.span)) =>
        /\ Len(self.candidates_data) = 1
        /\ self.candidates_data[1].total_votes = DigitsValue(ParsedVotesDiv.text)
        /\ self.candidates_data[1].margin = DigitsValue(OnlyDigits(ParsedVotesDiv.span))

----------------------------------------------------------------------------
(* C10: when a part of the votes(margin) text fails to parse as an        *)
(* integer, total_votes and margin are both 0, the candidate record is    *)
(* still produced and no exception escapes.                               *)

\* the bracketed part holds a character that is no digit, sign, separator,
\* bracket or blank
MarginUnparsable(span) ==
    /\ span # NoneText
    /\ \E k \in 1..Len(span) : span[k] \notin Digits \cup {"(", ")", "+", "-", ",", " "}

\* the text before the bracket is no integer literal: after trimming and
\* dropping one leading sign it is empty or holds a character that is no digit
VotesUnparsable(text) ==
    LET t == Strip(text)
        u == IF t # <<>> /\ Head(t) \in {"+", "-"} THEN Tail(t) ELSE t
    IN  u = <<>> \/ \E k \in 1..Len(u) : u[k] \notin Digits

C10_BothZeroOnFailure ==
    (/\ HasVotesDiv
     /\ VotesUnparsable(ParsedVotesDiv.text) \/ MarginUnparsable(ParsedVotesDiv.span)) =>
        /\ exc = NoExc
        /\ Len(self.candidates_data) = 1
        /\ self.candidates_data[1].total_votes = 0
        /\ self.candidates_data[1].margin = 0

----------------------------------------------------------------------------
(* C11: for a party display string without " - " the resolver of either   *)
(* crawler yields the whole string as name and the empty string as short  *)
(* name, does not raise, and the party is recorded.                       *)

\* the parties that party discovery has recorded
DiscoveredParties ==
    IF crawler = "VS"
    THEN (IF self.parties_data = NoneList THEN <<>> ELSE self.parties_data)
    ELSE loc.party_details

\* the rows of the index page that party discovery reads (enough cells)
PartyRowsRead ==
    IF IndexUrl \in DOMAIN portal /\ portal[IndexUrl].avail /\ portal[IndexUrl].table
    THEN {r \in Range(portal[IndexUrl].rows) :
            r.ncols >= (IF crawler = "VS" THEN 4 ELSE 2)}
    ELSE {}

\* party discovery is over: the run went on, ended or raised
PartyDiscoveryOver == crawler \in {"VS", "LS"} /\ pc \notin {"start", "parties"}

C11_NoDelimiterParty ==
    (/\ PartyDiscoveryOver
     /\ \A r \in PartyRowsRead : r.href # NoneText) =>
        \A r \in PartyRowsRead :
            (Find(Strip(r.full_name), T_SEP) = 0 /\ Strip(r.full_name) # <<>>) =>
                \E p \in Range(DiscoveredParties) :
                    p.name = Strip(r.full_name) /\ p.short_name = <<>>

----------------------------------------------------------------------------
(* Party discovery on index pages with a range of party display strings *)

\* display strings of the first cell of a party row
DisplayStrings ==
    { <<"B", "h", " ", "-", " ", "B", "J", "P">>,
      <<"A", " ", "-", " ", "a", " ", "-", " ", "b">>,
      <<" ", "C", " ", "-", " ", "c", " ">>,
      <<"A", "-", "a">>,
      <<"B">> }

\* the party links of an index page, as the crawler expects them
PartyLinks ==
    IF crawler = "VS"
    THEN { <<"p", "-", "1", "S", "0", "1", ".", "h">>, <<"p", "-", "2", "S", "0", "1", ".", "h">> }
    ELSE { <<"p", "-", "1", ".", "h">>, <<"p", "-", "2", ".", "h">> }

NamedPartyRows ==
    {[ncols |-> 4, full_name |-> n, href |-> h] : n \in DisplayStrings, h \in PartyLinks}

\* index pages whose party table holds up to MaxParties such rows
NamedIndexPages ==
    {IF crawler = "VS"
     THEN [avail |-> TRUE, main |-> TRUE, page_title |-> TRUE,
           h2 |-> <<"D", "e", "l", "h", "i">>, h1 |-> <<"2", "0", "2", "5">>,
           table |-> TRUE, rows |-> r]
     ELSE [avail |-> TRUE, table |-> TRUE, tbody |-> TRUE, rows |-> r,
           select |-> FALSE, options |-> <<>>] :
        r \in SeqsUpTo(NamedPartyRows, MaxParties)}

\* a run whose portal serves one of these index pages
InitParties ==
    /\ crawler \in {"VS", "LS"}
    /\ pc = "start"
    /\ portal \in {IndexUrl :> page : page \in NamedIndexPages}
    /\ \E url \in BaseUrls : self = NewScraper(url)
    /\ loc = NoLocals
    /\ files = NoFiles
    /\ log = <<>>
    /\ events = <<>>
    /\ exc = NoExc
    /\ store = NoStore

\* scrape() up to the end of party discovery
NextParties ==
    \/ VS_DetectStateInfo
    \/ VS_ScrapeParties
    \/ LS_ExtractMetadata
    \/ LS_DiscoverParties

SpecParties == InitParties /\ [][NextParties]_vars

----------------------------------------------------------------------------
(* C12: for a party display string that holds " - " the resolver of       *)
(* either crawler splits at the first occurrence only: name is the text   *)
(* before it, short name is all of the text after it, and name + " - " +  *)
(* short name gives the display string back, also when " - " occurs more  *)
(* than once.                                                             *)
C12_SplitAtFirstDelimiter ==
    (/\ PartyDiscoveryOver
     /\ \A r \in PartyRowsRead :
            r.href # NoneText /\ Find(Strip(r.full_name), T_SEP) > 1) =>
        \A r \in PartyRowsRead :
            LET s == Strip(r.full_name)
            IN  \E p \in Range(DiscoveredParties) :
                    /\ p.name = SubSeq(s, 1, Find(s, T_SEP) - 1)
                    /\ p.name \o T_SEP \o p.short_name = s

----------------------------------------------------------------------------
(* C13: in a run of the assembly crawler the candidate page of a          *)
(* constituency (state code + local code) is fetched at most once, also   *)
(* when the constituency is listed on the results pages of several        *)
(* parties. (Stated for runs whose index page lists every party once.)    *)

\* no two records of parties.json are the same
PartiesListedOnce ==
    \A i, j \in 1..Len(DiscoveredParties) :
        DiscoveredParties[i].id = DiscoveredParties[j].id => i = j

C13_CandidatePageFetchedOnce ==
    (crawler = "VS" /\ PartyDiscoveryOver /\ PartiesListedOnce) =>
        \A i, j \in FetchesOf({"cand"}) : events[i].url = events[j].url => i = j

----------------------------------------------------------------------------
(* A run that is not held up: scrape() is one sequential call, so the     *)
(* step that is enabled is eventually taken.                              *)
SpecLive == Init /\ [][Next]_vars /\ WF_vars(Next)

(* C14: for every finite portal and every combination of unavailable or   *)
(* malformed pages a run eventually reaches a terminal state in which     *)
(* output has been written: scrape() returns and no page-level fetch,     *)
(* structure or field failure ends it with an exception.                  *)
C14_EventuallyPersisted ==
    <>(pc = "done" /\ \E f \in FileNames : files[f].exists)

----------------------------------------------------------------------------
(* C15: metadata extraction never aborts the run. When the state cannot   *)
(* be detected (index page unavailable, page-title block missing, or      *)
(* title text matching no entry of the state table) the state is "XX",    *)
(* and when no year can be detected the year is 2024.                     *)

\* the index page offers no title to read the state from
NoTitleBlock ==
    \/ ~portal[IndexUrl].avail
    \/ ~portal[IndexUrl].main
    \/ ~portal[IndexUrl].page_title
    \/ portal[IndexUrl].h2 = NoneText

StateUndetectable == NoTitleBlock \/ FirstStatePattern(portal[IndexUrl].h2) = 0

YearUndetectable ==
    /\ YearSearch(self.base_url) = NoYear
    /\ crawler = "VS" =>
          \/ NoTitleBlock
          \/ portal[IndexUrl].h1 = NoneText
          \/ YearSearch(portal[IndexUrl].h1) = NoYear

\* the run raised inside metadata extraction: before the fetch that party
\* discovery starts with
MetadataAborted ==
    pc = "raised" /\ Len(events) = (IF crawler = "VS" THEN 1 ELSE 0)

C15_MetadataDefaults ==
    (crawler \in {"VS", "LS"} /\ pc # "start") =>
        /\ ~MetadataAborted
        /\ (crawler = "VS" /\ StateUndetectable) => self.state_code = T_XX
        /\ YearUndetectable => self.year = 2024

----------------------------------------------------------------------------
(* C16: every unit that is skipped or fails during a run (a party page, a *)
(* constituency page, a candidate card whose fetch or extraction fails)   *)
(* produces a log entry that identifies the unit: nothing is left out of  *)
(* the output without a log entry. (Stated for the assembly crawler.)     *)

\* a warning or error entry that names the unit
FailureLogged(unit) ==
    \E i \in 1..Len(log) : log[i].level \in {"warning", "error"} /\ log[i].unit = unit

\* the names under which the run knows the party or constituency page at u
UnitNames(u) ==
    IF u.kind = "party"
    THEN {p.name : p \in {q \in Range(DiscoveredParties) :
                            _generate_party_page_link(q.id \o self.state_id) = u}}
    ELSE {c.name : c \in {d \in Range(files["constituencies"].data) :
                            _generate_constituency_page_link(d.state_id, d.id) = u}}

C16_SkippedUnitsLogged ==
    crawler = "VS" =>
        \A u \in RevealedUrls("party") \cup RevealedUrls("cand") :
            /\ ~portal[u].avail => \A n \in UnitNames(u) : FailureLogged(n)
            /\ (u.kind = "cand" /\ portal[u].avail) =>
                  \A i \in 1..Len(portal[u].cards) :
                      CardSkipped(portal[u].cards[i]) =>
                          \A n \in UnitNames(u) : FailureLogged(n)

----------------------------------------------------------------------------
(* C17: in the assembly crawler, at every point after a constituency's    *)
(* candidates have been discovered candidates.json holds every candidate  *)
(* discovered so far in the run, in order, so that a run that ends        *)
(* mid-way (here: by an exception on a later page) leaves the candidates  *)
(* of the constituencies already processed intact.                        *)

\* (composite code, name) of the candidates a fetched candidate page yields, in order
RECURSIVE CardKeys(_, _)
CardKeys(code, cards) ==
    IF cards = <<>> THEN <<>>
    ELSE (IF Head(cards).info /\ Head(cards).nme_prty
          THEN <<<<code, Strip(Head(cards).name)>>>> ELSE <<>>)
         \o CardKeys(code, Tail(cards))

\* the candidates discovered by the first n fetches of the run, in order
RECURSIVE DiscoveredUpTo(_)
DiscoveredUpTo(n) ==
    IF n = 0 THEN <<>>
    ELSE DiscoveredUpTo(n - 1)
         \o (IF events[n].ev = "fetch" /\ events[n].url.kind = "cand" /\ events[n].ok
              THEN CardKeys(events[n].url.code, portal[events[n].url].cards)
              ELSE <<>>)

\* (composite code, name) of the records of candidates.json, in order
StoredCandidates ==
    [i \in 1..Len(files["candidates"].data) |->
        <<files["candidates"].data[i].state_id \o files["candidates"].data[i].constituency_id,
          files["candidates"].data[i].name>>]

----------------------------------------------------------------------------
(* C18: the national (batch) crawler writes no output artifact before all *)
(* discovery stages have finished: every write comes after every fetch,   *)
(* and a run that ends at any point during discovery leaves nothing on    *)
(* durable storage.                                                       *)
C18_NothingWrittenBeforeSave ==
    crawler = "LS" =>
        /\ \A w \in Writes : \A i \in FetchesOf({"index", "partyState", "state"}) : i < w
        /\ pc # "done" => \A f \in FileNames : ~files[f].exists /\ files[f].data = <<>>

\* a national run that raised during constituency discovery with candidates in memory
C18_Witness ==
    /\ crawler = "LS" /\ pc = "raised"
    /\ self.candidates_data # <<>>
    /\ FetchesOf({"state"}) # {}
    /\ \A f \in FileNames : ~files[f].exists

----------------------------------------------------------------------------
(* C19: within a run, between any two consecutive page fetches for        *)
(* parties or constituencies a delay step occurs: no two such fetches are *)
(* issued back to back without an intervening delay.                      *)
PageFetches == FetchesOf({"party", "cand", "partyState", "state"})

Delays == {i \in 1..Len(events) : events[i].ev = "sleep"}

C19_DelayBetweenFetches ==
    \A i, j \in PageFetches :
        i < j => \E d \in Delays : i < d /\ d < j

----------------------------------------------------------------------------
(* C20: after party discovery in either crawler, the parties collection   *)
(* holds at most one record per party identifier, so that each identifier *)
(* goes with exactly one (name, short name) pair, even when the index     *)
(* page lists the same party link in more than one row.                   *)

\* the identifier of the n-th discovered party
PartyIdOf(n) ==
    IF crawler = "VS" THEN DiscoveredParties[n].id ELSE DiscoveredParties[n].party_id

C20_OneRecordPerPartyId ==
    PartyDiscoveryOver =>
        \A i, j \in 1..Len(DiscoveredParties) :
            PartyIdOf(i) = PartyIdOf(j) => i = j

----------------------------------------------------------------------------
(* Runs on a portal whose pages sight one constituency more than once *)

MaxSightings == 3   \* rows of the first party's page, options of the first state's page

\* rows of a party results page: two of them link to S011 under different names
SightedRows ==
    VS_ConstituencyRowKinds
    \cup { [ncols |-> 2, href |-> <<"c", "-", "S", "0", "1", "1", ".", "h">>,
            name |-> <<"J">>] }

\* options of a state page's dropdown: two carry the value 1 and two the value 2
SightedOptions ==
    LS_ConstituencyOptions
    \cup { [value |-> <<"1">>, text |-> <<"J", " ", "-", " ", "9">>],
            [value |-> <<"2">>, text |-> <<"N", " ", "-", " ", "2">>] }

\* the portal of an assembly election with two parties: the first party's page
\* lists up to MaxSightings rows, the second party's page at most one
VS_SightingPortals ==
    { (IndexUrl :> [avail |-> TRUE, main |-> TRUE, page_title |-> TRUE,
                    h2 |-> <<"D", "e", "l", "h", "i">>, h1 |-> <<"2", "0", "2", "5">>,
                    table |-> TRUE,
                    rows |-> << [ncols |-> 4, full_name |-> <<"A", " ", "-", " ", "a">>,
                                 href |-> <<"p", "-", "1", "S", "0", "1", ".", "h">>],
                                [ncols |-> 4, full_name |-> <<"B">>,
                                 href |-> <<"p", "-", "2", "S", "0", "1", ".", "h">>] >>])
      @@ (_generate_party_page_link(<<"1", "S", "0", "1">>) :>
             [avail |-> TRUE, table |-> TRUE, tbody |-> TRUE, rows |-> r1])
      @@ (_generate_party_page_link(<<"2", "S", "0", "1">>) :>
             [avail |-> TRUE, table |-> TRUE, tbody |-> TRUE, rows |-> r2])
      @@ (_generate_constituency_page_link(<<"S", "0", "1">>, <<"1">>) :> Unavailable)
      @@ (_generate_constituency_page_link(<<"S", "0", "1">>, <<"2">>) :> Unavailable) :
        r1 \in SeqsUpTo(SightedRows, MaxSightings), r2 \in SeqsUpTo(SightedRows, 1) }

\* the portal of a national election with one party and two states
LS_SightingPortals ==
    { (IndexUrl :> [avail |-> TRUE, table |-> TRUE, tbody |-> TRUE,
                    rows |-> << [ncols |-> 2, full_name |-> <<"A", " ", "-", " ", "a">>,
                                 href |-> <<"p", "-", "1", ".", "h">>] >>,
                    select |-> TRUE,
                    options |-> << [value |-> <<"S", "0", "1">>, text |-> <<"G", "o", "a">>],
                                   [value |-> <<"S", "0", "2">>, text |-> <<"D", "i", "u">>] >>])
      @@ (Url("partyState", <<"1">>) :> Unavailable)
      @@ (Url("state", <<"S", "0", "1">>) :>
             [avail |-> TRUE, select |-> TRUE, options |-> o1])
      @@ (Url("state", <<"S", "0", "2">>) :>
             [avail |-> TRUE, select |-> TRUE, options |-> o2]) :
        o1 \in SeqsUpTo(SightedOptions, MaxSightings), o2 \in SeqsUpTo(SightedOptions, 1) }

\* a run of either crawler against one of these portals
InitSightings ==
    /\ crawler \in {"VS", "LS"}
    /\ pc = "start"
    /\ portal \in (IF crawler = "VS" THEN VS_SightingPortals ELSE LS_SightingPortals)
    /\ \E url \in BaseUrls : self = NewScraper(url)
    /\ loc = NoLocals
    /\ files = NoFiles
    /\ log = <<>>
    /\ events = <<>>
    /\ exc = NoExc
    /\ store = NoStore

SpecSightings == InitSightings /\ [][Next]_vars

\* the record the assembly crawler builds from a row of a party results page
RowSighting(row) ==
    [key |-> LinkCode(row.href),
     rec |-> [id |-> From4(LinkCode(row.href)),
              name |-> SplitFirst(Strip(row.name), <<"(">>),
              state_id |-> First3(LinkCode(row.href))]]

\* the record the national crawler builds from an option of a state's dropdown
OptionSighting(option, state_code) ==
    LET text == Strip(option.text)
        rest == SubSeq(text, Find(text, <<"-">>) + 1, Len(text))
    IN  [key |-> state_code \o option.value,
         rec |-> [constituency_id |-> option.value,
                  constituency_name |-> SplitFirst(text, <<"-">>),
                  constituency_number |-> Strip(SplitFirst(rest, <<"-">>)),
                  state_id |-> state_code]]

\* the sightings of one fetched page, in the page's order
RECURSIVE PageSightings(_, _)
PageSightings(url, items) ==
    IF items = <<>> THEN <<>>
    ELSE (IF url.kind = "party"
          THEN (IF Head(items).ncols >= 2 /\ Head(items).href \notin {NoneText, <<>>}
                THEN <<RowSighting(Head(items))>> ELSE <<>>)
          ELSE (IF Head(items).value # <<>>
                THEN <<OptionSighting(Head(items), url.code)>> ELSE <<>>))
         \o PageSightings(url, Tail(items))

\* the sightings of the party and state pages among the first n events
RECURSIVE SightingsUpTo(_)
SightingsUpTo(n) ==
    IF n = 0 THEN <<>>
    ELSE SightingsUpTo(n - 1)
         \o (IF events[n].ev = "fetch" /\ events[n].ok
                 /\ events[n].url.kind \in {"party", "state"}
              THEN PageSightings(events[n].url,
                                 IF events[n].url.kind = "party"
                                 THEN portal[events[n].url].rows
                                 ELSE portal[events[n].url].options)
              ELSE <<>>)

Sightings == SightingsUpTo(Len(events))

\* the constituency records kept so far, each with its composite key
KeptConstituencies ==
    IF crawler = "VS"
    THEN [i \in 1..Len(files["constituencies"].data) |->
            [key |-> files["constituencies"].data[i].state_id
                     \o files["constituencies"].data[i].id,
             rec |-> files["constituencies"].data[i]]]
    ELSE [i \in 1..Len(self.constituencies_data) |->
            [key |-> self.constituencies_data[i].state_id
                     \o self.constituencies_data[i].constituency_id,
             rec |-> self.constituencies_data[i]]]

\* the position of the first element of list that carries the key
FirstWithKey(list, key) ==
    CHOOSE i \in 1..Len(list) :
        list[i].key = key /\ \A j \in 1..(i - 1) : list[j].key # key

KeysOf(list) == {list[i].key : i \in 1..Len(list)}

----------------------------------------------------------------------------
(* C22: in the summary record, winning_party names a party whose seat     *)
(* count is greater than or equal to the seat count of every other party  *)
(* of the run, and winning_party_seats equals that party's seat count.    *)

\* the summary record written by _save_all_data
SummaryRecord == files["summary"].data[1]

C22_WinningPartyHasMostSeats ==
    (crawler = "LS" /\ files["summary"].exists /\ files["parties"].data # <<>>) =>
        \E p \in Range(files["parties"].data) :
            /\ SummaryRecord.winning_party = p.party_name
            /\ SummaryRecord.winning_party_seats = p.total_seats
            /\ \A q \in Range(files["parties"].data) : q.total_seats <= p.total_seats

\* a finished national run in which the party listed second on the index page
\* won more seats than the party listed first
C22_Witness ==
    /\ crawler = "LS" /\ pc = "done"
    /\ files["summary"].exists
    /\ Len(loc.party_candidates) = 2
    /\ Len(loc.party_candidates[1]) < Len(loc.party_candidates[2])
    /\ SummaryRecord.winning_party_seats = Len(loc.party_candidates[2])

----------------------------------------------------------------------------
(* migrate_json_to_db.py: the artifacts of a crawl loaded into the database *)

MaxLoads == 2       \* runs of the migration script

TableNames == {"parties", "constituencies", "candidates"}

\* records of the three artifacts, as the assembly crawler writes them
StoreParties ==
    { [id |-> <<"1">>, name |-> <<"A">>, short_name |-> <<"a">>, symbol |-> <<>>],
      [id |-> <<"1">>, name |-> <<"B">>, short_name |-> <<"b">>, symbol |-> <<>>],
      [id |-> <<"2">>, name |-> <<"A">>, short_name |-> <<"a">>, symbol |-> <<>>] }

StoreConstituencies ==
    { [id |-> <<"1">>, name |-> <<"K">>, state_id |-> <<"S", "0", "1">>] }

StoreCandidates ==
    { [id |-> <<"u">>, name |-> <<"X">>, status |-> <<"w", "o", "n">>],
      [id |-> <<"u">>, name |-> <<"X">>, status |-> <<>>] }

\* the artifacts a crawl leaves in the election directory
ArtifactSets ==
    { [NoFiles EXCEPT !["parties"] = save_json(p),
                      !["constituencies"] = save_json(c),
                      !["candidates"] = save_json(k)] :
        p \in SeqsUpTo(StoreParties, MaxMigrate),
        c \in SeqsUpTo(StoreConstituencies, 1),
        k \in SeqsUpTo(StoreCandidates, 1) }

\* load_json_file: the array of the file, [] when it cannot be read
load_json_file(file) == IF file.exists THEN file.data ELSE <<>>

\* the rows that bulk_create builds from the dicts of a batch
TableRows(table, batch) ==
    [i \in 1..Len(batch) |->
        IF table = "parties"
        THEN [id |-> batch[i].id, name |-> batch[i].name,
              short_name |-> batch[i].short_name, symbol |-> batch[i].symbol]
        ELSE IF table = "constituencies"
        THEN [id |-> batch[i].id, original_id |-> batch[i].id,
              name |-> batch[i].name, state_id |-> batch[i].state_id]
        ELSE [id |-> batch[i].id, name |-> batch[i].name, status |-> batch[i].status]]

PrimaryKeys(rows) == {rows[i].id : i \in 1..Len(rows)}

\* no two rows carry the same primary key
DistinctKeys(rows) == \A i, j \in 1..Len(rows) : rows[i].id = rows[j].id => i = j

\* an empty database, no session open
EmptyStore ==
    [tables |-> [t \in TableNames |-> <<>>],      \* the committed rows
     pending |-> [t \in TableNames |-> <<>>],     \* the rows as the open session sees them
     active |-> TRUE,                              \* the session's transaction is usable
     loads |-> 0]                                  \* runs of the script so far

\* bulk_create: session.bulk_save_objects inserts the rows. A primary key that
\* is already in the table, or twice in the batch, raises IntegrityError and
\* rolls the transaction back; the session then refuses every statement
\* (PendingRollbackError) until it is closed.
bulk_create(db, table, batch) ==
    LET rows == TableRows(table, batch)
    IN  IF ~db.active
        THEN [db |-> db, error |-> "PendingRollbackError"]
        ELSE IF ~DistinctKeys(rows)
                \/ PrimaryKeys(rows) \cap PrimaryKeys(db.pending[table]) # {}
        THEN [db |-> [db EXCEPT !.active = FALSE, !.pending = db.tables],
              error |-> "IntegrityError"]
        ELSE [db |-> [db EXCEPT !.pending[table] = @ \o rows], error |-> NoExc]

\* a database and the artifacts of a first crawl
InitStore ==
    /\ crawler = "MIGRATE"
    /\ pc = "idle"
    /\ portal = <<>>
    /\ self = NewScraper(<<>>)
    /\ loc = NoLocals
    /\ files \in ArtifactSets
    /\ log = <<>>
    /\ events = <<>>
    /\ exc = NoExc
    /\ store = EmptyStore

\* a later crawl replaces the artifacts of the election directory
Recrawl ==
    /\ crawler = "MIGRATE" /\ pc = "idle"
    /\ store.loads = 1
    /\ files' \in ArtifactSets \ {files}
    /\ UNCHANGED <<store, crawler, pc, portal, self, loc, log, events, exc>>

\* migrate_election_data, lines 186-229: the three files are loaded and, unless
\* all are empty, a session is opened
MigrateElectionData ==
    /\ crawler = "MIGRATE" /\ pc = "idle"
    /\ store.loads < MaxLoads
    /\ self' = [self EXCEPT
                  !.parties_data = load_json_file(files["parties"]),
                  !.constituencies_data = load_json_file(files["constituencies"]),
                  !.candidates_data = load_json_file(files["candidates"])]
    /\ store' = [store EXCEPT !.loads = @ + 1, !.active = TRUE, !.pending = store.tables]
    /\ pc' = IF /\ self'.parties_data = <<>>
                /\ self'.constituencies_data = <<>>
                /\ self'.candidates_data = <<>>
             THEN "idle" ELSE "parties"
    /\ log' = <<>>
    /\ exc' = NoExc
    /\ UNCHANGED <<crawler, portal, loc, files, events>>

\* one of migrate_parties, migrate_constituencies, migrate_candidates: the
\* exception of bulk_create is caught and reported
MigrateTable(table, batch, next) ==
    /\ crawler = "MIGRATE" /\ pc = table
    /\ LET r == bulk_create(store, table, batch)
       IN  /\ store' = r.db
           /\ log' = Append(log, LogEntry(IF r.error = NoExc THEN "info" ELSE "error",
                                          "migrate", table))
    /\ pc' = next
    /\ UNCHANGED <<crawler, portal, self, loc, files, events, exc>>

migrate_parties == MigrateTable("parties", self.parties_data, "constituencies")

migrate_constituencies ==
    MigrateTable("constituencies", self.constituencies_data, "candidates")

migrate_candidates ==
    MigrateTable("candidates", normalize_candidates_data(self.candidates_data), "commit")

\* get_db_session, lines 34-39 of base.py: commit at the end of the with block;
\* on a rolled-back session the commit raises and the script exits with 1
CommitSession ==
    /\ crawler = "MIGRATE" /\ pc = "commit"
    /\ IF store.active
       THEN /\ store' = [store EXCEPT !.tables = store.pending]
            /\ UNCHANGED exc
       ELSE /\ store' = [store EXCEPT !.pending = store.tables]
            /\ exc' = "PendingRollbackError"
    /\ pc' = "idle"
    /\ UNCHANGED <<crawler, portal, self, loc, files, log, events>>

NextStore ==
    \/ Recrawl
    \/ MigrateElectionData
    \/ migrate_parties
    \/ migrate_constituencies
    \/ migrate_candidates
    \/ CommitSession

SpecStore == InitStore /\ [][NextStore]_vars

\* the script is not running and has run at least once on non-empty artifacts
LoadFinished ==
    /\ crawler = "MIGRATE" /\ pc = "idle" /\ store.loads >= 1
    /\ \E t \in TableNames : load_json_file(files[t]) # <<>>
    /\ self.parties_data = load_json_file(files["parties"])
    /\ self.constituencies_data = load_json_file(files["constituencies"])
    /\ self.candidates_data = load_json_file(files["candidates"])

\* the batch that the last load built for a table
LoadedRows(table) ==
    TableRows(table, IF table = "candidates"
                     THEN normalize_candidates_data(self.candidates_data)
                     ELSE IF table = "parties" THEN self.parties_data
                     ELSE self.constituencies_data)

(* C23: bulk-loading a batch performs insert-or-update by primary key:    *)
(* a load whose batches hold a primary key that is already in the store   *)
(* does not fail and leaves exactly one row for that key, carrying the    *)
(* newly loaded values. (Stated for batches that hold no key twice.)      *)
C23_BulkLoadUpserts ==
    (LoadFinished /\ \A t \in TableNames : DistinctKeys(LoadedRows(t))) =>
        /\ exc = NoExc
        /\ \A e \in Range(log) : e.level # "error"
        /\ \A t \in TableNames :
              /\ DistinctKeys(store.tables[t])
              /\ Range(LoadedRows(t)) \subseteq Range(store.tables[t])

----------------------------------------------------------------------------
(* LokSabhaScraper._extract_metadata on a range of base URLs *)

MaxPieces == 3      \* pieces a base URL is put together from

UrlPieces ==
    { <<"e">>, <<"2">>, <<"2", "0">>, <<"2", "0", "2">>, <<"1">>,
      <<"2", "0", "1", "9">>, <<"2", "0", "2", "4">>, <<"J", "u", "n", "e">> }

\* the pieces of a list, one after the other
RECURSIVE Concat(_)
Concat(pieces) == IF pieces = <<>> THEN <<>> ELSE Head(pieces) \o Concat(Tail(pieces))

MetadataUrls == {Concat(p) : p \in SeqsUpTo(UrlPieces, MaxPieces)}

\* a national scraper constructed on one of these URLs
InitMetadata ==
    /\ crawler = "LS"
    /\ pc = "start"
    /\ portal = <<>>
    /\ \E url \in MetadataUrls : self = NewScraper(url)
    /\ loc = NoLocals
    /\ files = NoFiles
    /\ log = <<>>
    /\ events = <<>>
    /\ exc = NoExc
    /\ store = NoStore

SpecMetadata == InitMetadata /\ [][LS_ExtractMetadata]_vars

\* the positions of the base URL at which a 4-digit token beginning with 20 starts
YearTokens ==
    {i \in 1..Len(self.base_url) :
        /\ i + 3 <= Len(self.base_url)
        /\ SubSeq(self.base_url, i, i + 1) = <<"2", "0">>
        /\ self.base_url[i + 2] \in Digits
        /\ self.base_url[i + 3] \in Digits}

\* the text of the first such token, 2024 when there is none
FirstYearText ==
    IF YearTokens = {} THEN <<"2", "0", "2", "4">>
    ELSE LET i == CHOOSE k \in YearTokens : \A j \in YearTokens : k <= j
         IN  SubSeq(self.base_url, i, i + 3)

(* C24: for a base URL that holds a 4-digit token beginning with 20, the  *)
(* national crawler's metadata extraction sets year to the integer value  *)
(* of the first such token, the election name to "Lok Sabha General       *)
(* Election <year>" and the folder name to "lok-sabha-<year>"; with no    *)
(* such token the year is 2024.                                           *)
C24_YearFromBaseUrl ==
    (crawler = "LS" /\ pc = "parties") =>
        /\ self.year = DigitsValue(FirstYearText)
        /\ self.election_name = T_ELECTION_NAME \o FirstYearText
        /\ self.folder_name = T_FOLDER_NAME \o FirstYearText

\* extraction has run on a URL that holds 2019 before 2024
C24_Witness ==
    /\ crawler = "LS" /\ pc = "parties"
    /\ \E i, j \in YearTokens :
          /\ i < j
          /\ SubSeq(self.base_url, i, i + 3) = <<"2", "0", "1", "9">>
          /\ SubSeq(self.base_url, j, j + 3) = <<"2", "0", "2", "4">>
    /\ self.year = 2019

----------------------------------------------------------------------------
(* Assembly runs on party pages with a range of constituency links *)

MaxLinks == 2       \* rows of the party's results page

T_CANDIDATESWISE == <<"/", "c", "a", "n", "d", "i", "d", "a", "t", "e", "s", "w", "i", "s", "e", "-">>
T_HTM == <<".", "h", "t", "m">>

\* the link of a candidate page as text: line 66, the f-string
UrlText(base_url, url) == base_url \o T_CANDIDATESWISE \o url.code \o T_HTM

LinkPrefixes ==
    { <<"c", "a", "n", "d", "i", "d", "a", "t", "e", "s", "w", "i", "s", "e", "-">>,
      <<"C", "w", "i", "s", "e", "-">>,
      <<"a", "-", "b", "-">>,
      <<>> }

LinkCodes ==
    { <<"S", "0", "1", "5">>, <<"S", "0", "1">>, <<"S", "0">>,
      <<"U", "0", "5", "1", "2">>, <<>> }

\* rows whose second cell links to <prefix><code>.htm
LinkRows ==
    {[ncols |-> 2, href |-> p \o c \o T_HTM, name |-> <<"K">>] :
        p \in LinkPrefixes, c \in LinkCodes}

\* an assembly portal with one party whose page lists up to MaxLinks such rows
InitLinks ==
    /\ crawler = "VS"
    /\ pc = "start"
    /\ portal \in
         { (IndexUrl :> [avail |-> TRUE, main |-> TRUE, page_title |-> TRUE,
                         h2 |-> <<"D", "e", "l", "h", "i">>, h1 |-> <<"2", "0", "2", "5">>,
                         table |-> TRUE,
                         rows |-> << [ncols |-> 4, full_name |-> <<"B">>,
                                      href |-> <<"p", "-", "1", "S", "0", "1", ".", "h">>] >>])
           @@ (_generate_party_page_link(<<"1", "S", "0", "1">>) :>
                  [avail |-> TRUE, table |-> TRUE, tbody |-> TRUE, rows |-> r]) :
             r \in SeqsUpTo(LinkRows, MaxLinks) }
    /\ \E url \in BaseUrls : self = NewScraper(url)
    /\ loc = NoLocals
    /\ files = NoFiles
    /\ log = <<>>
    /\ events = <<>>
    /\ exc = NoExc
    /\ store = NoStore

NextLinks ==
    \/ VS_DetectStateInfo
    \/ VS_ScrapeParties
    \/ VS_ScrapeConstituencies
    \/ VS_ScrapeCandidates
    \/ VS_Finish

SpecLinks == InitLinks /\ [][NextLinks]_vars

\* the links of the party pages fetched so far, each from the last "-" on
DiscoveredSuffixes ==
    {SplitLast(row.href, <<"-">>) :
        row \in UNION {Range(portal[events[i].url].rows) : i \in FetchesOf({"party"})}}

\* the links of the candidate pages fetched so far, as text
FetchedCandidateLinks ==
    {UrlText(self.base_url, events[i].url) : i \in FetchesOf({"cand"})}

----------------------------------------------------------------------------
(* CandidateDataAgent.populate_candidate_data *)

\* the six detail fields in the order of lines 451-456
DetailFields ==
    <<"education_background", "political_background", "family_background",
      "assets", "liabilities", "crime_cases">>

\* the key of the status dict that goes with a field
StatusKey(field) ==
    CASE field = "education_background" -> "education"
      [] field = "political_background" -> "political"
      [] field = "family_background" -> "family"
      [] field = "assets" -> "assets"
      [] field = "liabilities" -> "liabilities"
      [] field = "crime_cases" -> "crime_cases"

\* the detail columns of the Candidate model, candidate.py lines 45-47
CandidateColumns == {"education_background", "family_background", "assets"}

NullValue == "None"

\* a candidate row as the session loads it: the three columns of the model,
\* each null or filled
LoadedCandidates == [CandidateColumns -> {NullValue, "old"}]

\* an object that carries all six attributes, as the callers of the tests build it
SixFieldCandidates == [Range(DetailFields) -> {NullValue, "old"}]

SearchEvent(field, ok) == [ev |-> "search", url |-> IndexUrl, file |-> field, ok |-> ok]

\* lines 427-436: status all False, update_data empty; entry keeps the candidate
\* as it was when the call began
AgentLocals(candidate) ==
    [field |-> 1,
     status |-> [k \in {StatusKey(f) : f \in Range(DetailFields)} |-> FALSE],
     update_data |-> <<>>,
     entry |-> candidate]

InitAgent ==
    /\ crawler = "AGENT"
    /\ pc = "fields"
    /\ portal = <<>>
    /\ self = NewScraper(<<>>)
    /\ store \in {[candidate |-> c] : c \in LoadedCandidates \cup SixFieldCandidates}
    /\ loc = AgentLocals(store.candidate)
    /\ files = NoFiles
    /\ log = <<>>
    /\ events = <<>>
    /\ exc = NoExc

\* lines 439-449, called at 451-456: one field. getattr raises AttributeError
\* for an attribute the object does not have; a fetch makes one search call
\* and returns data or None
fetch_and_update ==
    /\ crawler = "AGENT" /\ pc = "fields"
    /\ loc.field <= Len(DetailFields)
    /\ LET field_name == DetailFields[loc.field]
           status_key == StatusKey(field_name)
       IN  IF field_name \notin DOMAIN store.candidate
           THEN /\ exc' = "AttributeError"
                /\ pc' = "raised"
                /\ UNCHANGED <<loc, events, log>>
           ELSE IF store.candidate[field_name] = NullValue
           THEN \E data \in {NullValue, "new"} :
                  /\ events' = events \o <<SearchEvent(field_name, data # NullValue),
                                            SleepEvent>>
                  /\ loc' = IF data # NullValue
                            THEN [loc EXCEPT
                                    !.update_data = (field_name :> data) @@ @,
                                    !.status[status_key] = TRUE,
                                    !.field = @ + 1]
                            ELSE [loc EXCEPT !.field = @ + 1]
                  /\ UNCHANGED <<log, exc, pc>>
           ELSE /\ log' = Append(log, LogEntry("info", "already_exists", status_key))
                /\ loc' = [loc EXCEPT !.status[status_key] = TRUE, !.field = @ + 1]
                /\ UNCHANGED <<events, exc, pc>>
    /\ UNCHANGED <<store, crawler, portal, self, files>>

\* lines 459-474: the update is applied and committed, or rolled back when the
\* session refuses it; the status dict is returned
UpdateCandidate ==
    /\ crawler = "AGENT" /\ pc = "fields"
    /\ loc.field > Len(DetailFields)
    /\ IF loc.update_data # <<>>
       THEN \E committed \in BOOLEAN :
              IF committed
              THEN /\ store' = [store EXCEPT !.candidate =
                                  [f \in DOMAIN @ |->
                                      IF f \in DOMAIN loc.update_data
                                      THEN loc.update_data[f] ELSE @[f]]]
                   /\ log' = Append(log, LogEntry("info", "updated", <<>>))
              ELSE /\ log' = Append(log, LogEntry("error", "update_failed", <<>>))
                   /\ UNCHANGED store
       ELSE UNCHANGED <<store, log>>
    /\ pc' = "returned"
    /\ UNCHANGED <<crawler, portal, self, loc, files, events, exc>>

NextAgent == fetch_and_update \/ UpdateCandidate

SpecAgent == InitAgent /\ [][NextAgent]_vars

\* the search calls made for a field, and those that returned data
SearchesFor(field) ==
    {i \in 1..Len(events) : events[i].ev = "search" /\ events[i].file = field}

(* C26: populate_candidate_data never fetches or overwrites a detail      *)
(* field that already holds data. When the call ends it has returned a    *)
(* status dict, and for each of the six detail fields: a field that was   *)
(* non-null on entry has had no search call, is absent from the update    *)
(* and has status True; a field that was null has status True exactly     *)
(* when its fetch returned data.                                          *)
C26_ExistingFieldsUntouched ==
    (crawler = "AGENT" /\ pc \in {"returned", "raised"}) =>
        /\ pc = "returned"
        /\ \A field \in Range(DetailFields) :
              IF field \in DOMAIN loc.entry /\ loc.entry[field] # NullValue
              THEN /\ SearchesFor(field) = {}
                   /\ field \notin DOMAIN loc.update_data
                   /\ store.candidate[field] = loc.entry[field]
                   /\ loc.status[StatusKey(field)]
              ELSE loc.status[StatusKey(field)]
                       <=> \E i \in SearchesFor(field) : events[i].ok

----------------------------------------------------------------------------
(* VectorDBPipeline.sync_all_candidates *)

MaxCandidates == 4  \* rows of the candidates table
MaxBatch == 3       \* batch_size

\* the candidates table: rows with an id and a status
CandidateTables ==
    UNION {[1..n -> {"WON", "LOST"}] : n \in 0..MaxCandidates}

NoFilter == [status |-> "None"]

\* lines 236-243: the status filter of the query (the other two filters
\* select in the same way)
FilterQuery(table, filter_criteria) ==
    IF filter_criteria.status = "None"
    THEN [i \in 1..Len(table) |-> [id |-> i, status |-> table[i]]]
    ELSE SelectSeq([i \in 1..Len(table) |-> [id |-> i, status |-> table[i]]],
                   LAMBDA c : c.status = filter_criteria.status)

\* line 246: query.offset(offset).limit(batch_size).all()
OffsetLimit(rows, offset, batch_size) ==
    IF offset >= Len(rows) THEN <<>>
    ELSE SubSeq(rows, offset + 1,
                IF offset + batch_size < Len(rows) THEN offset + batch_size ELSE Len(rows))

UpsertEvent(candidate_id, ok) ==
    [ev |-> "upsert", url |-> IndexUrl, file |-> candidate_id, ok |-> ok]

\* lines 289-292 with the failed counter left out
AddStats_failed_dropped(overall_stats, batch_stats) ==
    [overall_stats EXCEPT !.total = @ + batch_stats.total,
                          !.synced = @ + batch_stats.synced,
                          !.batches = @ + 1]

\* lines 289-292
AddStats(overall_stats, batch_stats) ==
    [overall_stats EXCEPT !.total = @ + batch_stats.total,
                          !.synced = @ + batch_stats.synced,
                          !.failed = @ + batch_stats.failed,
                          !.batches = @ + 1]

\* lines 276-278; totals keeps the sizes of the batches returned, in order
InitSync ==
    /\ crawler = "SYNC"
    /\ pc = "query"
    /\ portal = <<>>
    /\ self = NewScraper(<<>>)
    /\ store \in {[candidates |-> t] : t \in CandidateTables}
    /\ loc \in {[batch_size |-> b, filter_criteria |-> f, offset |-> 0,
                  overall_stats |-> [total |-> 0, synced |-> 0, failed |-> 0, batches |-> 0],
                  candidates |-> <<>>,
                  stats |-> [total |-> 0, synced |-> 0, failed |-> 0],
                  totals |-> <<>>] :
                    b \in 1..MaxBatch, f \in {NoFilter, [status |-> "WON"]}}
    /\ files = NoFiles
    /\ log = <<>>
    /\ events = <<>>
    /\ exc = NoExc

\* sync_candidates_batch, lines 233-248: the query and the fresh statistics
sync_candidates_batch ==
    /\ crawler = "SYNC" /\ pc = "query"
    /\ LET candidates == OffsetLimit(FilterQuery(store.candidates, loc.filter_criteria),
                                     loc.offset, loc.batch_size)
       IN  loc' = [loc EXCEPT !.candidates = candidates,
                              !.stats = [total |-> Len(candidates), synced |-> 0, failed |-> 0],
                              !.totals = Append(@, Len(candidates))]
    /\ pc' = "batch"
    /\ UNCHANGED <<store, crawler, portal, self, files, log, events, exc>>

\* sync_candidate as the loop of lines 250-254 calls it: the upsert succeeds,
\* or it raises, which line 209 catches
sync_candidate ==
    /\ crawler = "SYNC" /\ pc = "batch"
    /\ loc.candidates # <<>>
    /\ \E ok \in BOOLEAN :
          /\ events' = Append(events, UpsertEvent(Head(loc.candidates).id, ok))
          /\ log' = Append(log, LogEntry(IF ok THEN "info" ELSE "error",
                                         IF ok THEN "synced" ELSE "sync_failed",
                                         Head(loc.candidates).id))
          /\ loc' = [loc EXCEPT !.candidates = Tail(@),
                                !.stats = IF ok THEN [@ EXCEPT !.synced = @ + 1]
                                                ELSE [@ EXCEPT !.failed = @ + 1]]
    /\ UNCHANGED <<store, crawler, portal, self, files, exc, pc>>

\* sync_all_candidates, lines 286-305: an empty batch ends the loop, any
\* other is added to the overall statistics
sync_all_candidates ==
    /\ crawler = "SYNC" /\ pc = "batch"
    /\ loc.candidates = <<>>
    /\ IF loc.stats.total = 0
       THEN /\ pc' = "returned"
            /\ UNCHANGED loc
       ELSE /\ loc' = [loc EXCEPT !.overall_stats = AddStats(@, loc.stats),
                                  !.offset = @ + loc.batch_size]
            /\ pc' = "query"
    /\ UNCHANGED <<store, crawler, portal, self, files, log, events, exc>>

NextSync == sync_candidates_batch \/ sync_candidate \/ sync_all_candidates

SpecSync == InitSync /\ [][NextSync]_vars

RECURSIVE SumOf(_)
SumOf(seq) == IF seq = <<>> THEN 0 ELSE Head(seq) + SumOf(Tail(seq))

Upserts == {i \in 1..Len(events) : events[i].ev = "upsert"}

(* C27: sync_all_candidates stops at the first batch that returns zero    *)
(* candidates: no batch is requested after an empty one, and the call     *)
(* has returned exactly when the last batch was empty. Its result has     *)
(* total = synced + failed, total the sum of the sizes of the non-empty   *)
(* batches and batches their number. A candidate whose upsert raises is   *)
(* counted as failed and the sync goes on: every candidate of every       *)
(* batch was handed to the upsert, and failed counts those that raised.   *)
C27_SyncAllCounts ==
    crawler = "SYNC" =>
        /\ \A i \in 1..(Len(loc.totals) - 1) : loc.totals[i] > 0
        /\ pc = "returned" =>
              /\ loc.totals # <<>> /\ loc.totals[Len(loc.totals)] = 0
              /\ loc.overall_stats.total
                     = loc.overall_stats.synced + loc.overall_stats.failed
              /\ loc.overall_stats.total = SumOf(loc.totals)
              /\ loc.overall_stats.batches = Len(loc.totals) - 1
              /\ Cardinality(Upserts) = loc.overall_stats.total
              /\ Cardinality({i \in Upserts : ~events[i].ok}) = loc.overall_stats.failed

C27_Witness ==
    /\ crawler = "SYNC" /\ pc = "returned"
    /\ loc.overall_stats.batches >= 2
    /\ loc.overall_stats.failed >= 1
    /\ loc.overall_stats.synced >= 1
    /\ \E i, j \in Upserts : i < j /\ ~events[i].ok /\ events[j].ok

----------------------------------------------------------------------------
(* VidhanSabhaScraper._append_json on the characters of the file *)

MaxAppends == 2     \* calls of _append_json in a row
MaxData == 2        \* records of a list handed to one call

NL == "\n"

\* two records: the empty dict and {"a": 1}
JsonRecords == {"empty", "a1"}

\* json.dump of a record at the nesting depth of an array element, indent=2
DumpRecord(r) ==
    IF r = "empty"
    THEN <<"{", "}">>
    ELSE <<"{", NL, " ", " ", " ", " ", "\"", "a", "\"", ":", " ", "1", NL, " ", " ", "}">>

RECURSIVE DumpItems(_)
DumpItems(list) ==
    IF Len(list) = 1
    THEN <<" ", " ">> \o DumpRecord(list[1]) \o <<NL>>
    ELSE <<" ", " ">> \o DumpRecord(Head(list)) \o <<",", NL>> \o DumpItems(Tail(list))

\* json.dump(list, f, indent=2): the text written
json_dump(list) ==
    IF list = <<>> THEN <<"[", "]">> ELSE <<"[", NL>> \o DumpItems(list) \o <<"]">>

\* the text without the whitespace a JSON parser skips between tokens
Compact(text) == SelectSeq(text, LAMBDA ch : ch \notin {" ", NL})

StartsWith(text, prefix) ==
    Len(text) >= Len(prefix) /\ SubSeq(text, 1, Len(prefix)) = prefix

ParseError == [ok |-> FALSE, value |-> <<>>]

\* the elements of an array after "[" or ",", up to the closing "]"
RECURSIVE ParseElements(_)
ParseElements(text) ==
    IF \E r \in JsonRecords : StartsWith(text, Compact(DumpRecord(r)))
    THEN LET r == CHOOSE q \in JsonRecords : StartsWith(text, Compact(DumpRecord(q)))
             rest == SubSeq(text, Len(Compact(DumpRecord(r))) + 1, Len(text))
         IN  IF rest = <<"]">> THEN [ok |-> TRUE, value |-> <<r>>]
             ELSE IF rest # <<>> /\ Head(rest) = ","
             THEN LET more == ParseElements(Tail(rest))
                  IN  IF more.ok THEN [ok |-> TRUE, value |-> <<r>> \o more.value]
                      ELSE ParseError
             ELSE ParseError
    ELSE ParseError

\* json.load(f): the array the text holds, or JSONDecodeError
json_load(text) ==
    LET c == Compact(text)
    IN  IF c = <<"[", "]">> THEN [ok |-> TRUE, value |-> <<>>]
        ELSE IF c # <<>> /\ Head(c) = "[" THEN ParseElements(Tail(c))
        ELSE ParseError

\* a write of text at position 0 of a file opened "r+": what lay beyond the
\* end of the new text stays
WriteAtStart(old, text) ==
    IF Len(old) > Len(text) THEN text \o SubSeq(old, Len(text) + 1, Len(old)) ELSE text

\* lines 71-91 on the characters: a new file gets the dump of the data; an
\* existing one is read, extended and written back from position 0
_append_json_text(file, data) ==
    IF ~file.exists
    THEN [exists |-> TRUE, data |-> json_dump(data)]
    ELSE LET loaded == json_load(file.data)
             existing == IF loaded.ok THEN loaded.value ELSE <<>>
         IN  [exists |-> TRUE, data |-> WriteAtStart(file.data, json_dump(existing \o data))]

\* what a file may hold when the first call finds it: nothing, an array in
\* another layout, or text that is no JSON (a cut-off array, stray characters)
FoundTexts ==
    {<<>>,
     <<"[", "{", "}", "]">>,
     <<"[", " ", " ", " ", " ", " ", " ", " ", " ", " ", " ", " ", " ", "{", "}", "]">>,
     <<"x">>,
     SubSeq(json_dump(<<"empty", "a1">>), 1, Len(json_dump(<<"empty", "a1">>)) - 1),
     <<"x", "x", "x", "x", "x", "x", "x", "x", "x", "x", "x", "x">>}

\* the data of one call: a record (appended) or a list of records (extended)
DataOf(data) == IF data.is_list THEN data.records ELSE <<data.records[1]>>

CallData ==
    {[is_list |-> FALSE, records |-> <<r>>] : r \in JsonRecords}
        \cup {[is_list |-> TRUE, records |-> l] :
                l \in UNION {[1..n -> JsonRecords] : n \in 0..MaxData}}

InitAppend ==
    /\ crawler = "APPEND"
    /\ pc = "found"
    /\ portal = <<>>
    /\ self = NewScraper(<<>>)
    /\ store = NoStore
    /\ files \in {[NoFiles EXCEPT !["constituencies"] = f] :
                    f \in {AbsentFile} \cup {[exists |-> TRUE, data |-> t] : t \in FoundTexts}}
    /\ loc = [calls |-> 0, found |-> <<>>, previous |-> <<>>, data |-> <<>>]
    /\ log = <<>>
    /\ events = <<>>
    /\ exc = NoExc

\* one call of _append_json; found, previous and data keep the text the call
\* found in the file, the records of that text and the records it was given
AppendJson ==
    /\ crawler = "APPEND"
    /\ loc.calls < MaxAppends
    /\ \E data \in CallData :
         LET file == files["constituencies"]
             loaded == IF file.exists THEN json_load(file.data) ELSE ParseError
         IN  /\ files' = [files EXCEPT
                            !["constituencies"] = _append_json_text(file, DataOf(data))]
             /\ loc' = [calls |-> loc.calls + 1,
                        found |-> file.data,
                        previous |-> IF loaded.ok THEN loaded.value ELSE <<>>,
                        data |-> DataOf(data)]
             /\ events' = Append(events, WriteEvent("constituencies"))
    /\ pc' = "appended"
    /\ UNCHANGED <<store, crawler, portal, self, log, exc>>

NextAppend == AppendJson

SpecAppend == InitAppend /\ [][NextAppend]_vars

(* C28: after any sequence of _append_json calls the file holds a single  *)
(* well-formed JSON array whose elements are the records it held before,  *)
(* in order, followed by the new record or records; when the file         *)
(* existed but was empty or unparseable, the result is a well-formed      *)
(* array of just the new records, with no bytes of the old content left.  *)
C28_AppendKeepsArray ==
    (crawler = "APPEND" /\ pc = "appended") =>
        /\ json_load(files["constituencies"].data).ok
        /\ json_load(files["constituencies"].data).value = loc.previous \o loc.data

----------------------------------------------------------------------------
(* The assembly crawler run again on the same portal and output location *)

MaxRuns == 2        \* runs of the assembly crawler, one after the other

\* run counts the runs; first keeps the artifacts as the first run left them
InitTwice ==
    /\ crawler = "VS"
    /\ pc = "start"
    /\ portal = <<>>
    /\ \E url \in BaseUrls : self = NewScraper(url)
    /\ loc = [run |-> 1, first |-> NoFiles] @@ NoLocals
    /\ files = NoFiles
    /\ log = <<>>
    /\ events = <<>>
    /\ exc = NoExc
    /\ store = NoStore

\* a new scraper for the same url once the run before has completed: the
\* object starts as __init__ leaves it, the files are where they were
RunAgain ==
    /\ crawler = "VS" /\ pc = "done"
    /\ loc.run < MaxRuns
    /\ self' = NewScraper(self.base_url)
    /\ loc' = [run |-> loc.run + 1,
               first |-> IF loc.run = 1 THEN files ELSE loc.first]
                 @@ [NoLocals EXCEPT !.uuid = loc.uuid]
    /\ pc' = "start"
    /\ UNCHANGED <<store, crawler, portal, files, log, events, exc>>

NextTwice ==
    \/ VS_DetectStateInfo
    \/ VS_ScrapeParties
    \/ VS_ScrapeConstituencies
    \/ VS_ScrapeCandidates
    \/ VS_Finish
    \/ RunAgain

SpecTwice == InitTwice /\ [][NextTwice]_vars

(* C29: when the assembly crawler has run a second time against the same  *)
(* portal with the same output location, constituencies.json holds the    *)
(* same set of records and candidates.json the same number of records as  *)
(* after the first run: what the first run wrote is not accumulated.      *)
C29_RerunLeavesArtifactsAlike ==
    (crawler = "VS" /\ pc = "done" /\ "run" \in DOMAIN loc /\ loc.run >= 2) =>
        /\ Range(files["constituencies"].data) = Range(loc.first["constituencies"].data)
        /\ count_json_records(files["candidates"])
              = count_json_records(loc.first["candidates"])

----------------------------------------------------------------------------
(* Two assembly runs appending to the same files at the same time *)

MaxRaceAppends == 2 \* _append_json calls of one run

Runs == {1, 2}

\* what a run appends, lines 166-167 and 185-187: constituency records, which
\* two runs may have alike, and candidate records, each with a uuid of its own
AppendsOf(r, shape) ==
    [i \in 1..Len(shape) |->
        IF shape[i] = "candidate"
        THEN [file |-> "candidates", record |-> [id |-> "candidate", uuid |-> <<r, i>>]]
        ELSE [file |-> "constituencies", record |-> [id |-> shape[i], uuid |-> <<>>]]]

AppendShapes ==
    UNION {[1..n -> {"candidate", "K1", "K2"}] : n \in 1..MaxRaceAppends}

\* todo: the appends a run has yet to make; done: those whose call returned;
\* step and json_data: where the run is inside _append_json and the array it
\* holds in memory; overlapped: some call began while another was under way
InitRace ==
    /\ crawler = "RACE"
    /\ pc = "running"
    /\ portal = <<>>
    /\ self = NewScraper(<<>>)
    /\ store = NoStore
    /\ files = NoFiles
    /\ \E shapes \in [Runs -> AppendShapes] :
         loc = [run |-> [r \in Runs |->
                           [todo |-> AppendsOf(r, shapes[r]), done |-> <<>>,
                            step |-> "call", json_data |-> <<>>]],
                overlapped |-> FALSE]
    /\ log = <<>>
    /\ events = <<>>
    /\ exc = NoExc

\* lines 72-77 and 81-89 in one run: the file is looked up and, if it is
\* there, loaded; the record is added to the array in memory
ReadForAppend(r) ==
    /\ crawler = "RACE"
    /\ loc.run[r].step = "call"
    /\ loc.run[r].todo # <<>>
    /\ LET a == Head(loc.run[r].todo)
           file == files[a.file]
       IN  loc' = [loc EXCEPT
                     !.run[r].json_data =
                         (IF file.exists THEN file.data ELSE <<>>) \o <<a.record>>,
                     !.run[r].step = "write",
                     !.overlapped = @ \/ \E q \in Runs \ {r} : loc.run[q].step = "write"]
    /\ UNCHANGED <<store, crawler, pc, portal, self, files, log, events, exc>>

\* lines 78-79 and 90-91 in one run: the array in memory is written out
WriteForAppend(r) ==
    /\ crawler = "RACE"
    /\ loc.run[r].step = "write"
    /\ LET a == Head(loc.run[r].todo)
       IN  /\ files' = [files EXCEPT ![a.file] = save_json(loc.run[r].json_data)]
           /\ events' = Append(events, WriteEvent(a.file))
           /\ loc' = [loc EXCEPT !.run[r].todo = Tail(@),
                                 !.run[r].done = Append(@, a),
                                 !.run[r].step = "call",
                                 !.run[r].json_data = <<>>]
    /\ UNCHANGED <<store, crawler, pc, portal, self, log, exc>>

NextRace == \E r \in Runs : ReadForAppend(r) \/ WriteForAppend(r)

SpecRace == InitRace /\ [][NextRace]_vars

(* C30: when two runs of the assembly crawler append to the same output   *)
(* location and their appends interleave, no record is lost: once both    *)
(* runs have made all their appends, constituencies.json and              *)
(* candidates.json contain every record that either run appended.         *)
C30_NoAppendLost ==
    (crawler = "RACE" /\ \A r \in Runs : loc.run[r].todo = <<>>) =>
        \A r \in Runs : \A i \in 1..Len(loc.run[r].done) :
            loc.run[r].done[i].record \in Range(files[loc.run[r].done[i].file].data)

====
